---- MODULE Spec2Model ----
(***************************************************************************)
(* A model of next-limitr: the sliding-window MemoryStore                   *)
(* (src/storage/memory-store.ts) and the AlertManager                       *)
(* (alerting/alert-manager.ts).  Time is the value Date.now() returns, in   *)
(* milliseconds; it never goes backwards.                                   *)
(***************************************************************************)
EXTENDS Integers, Sequences, FiniteSets, TLC

(***************************************************************************)
(* Bounds of the model.                                                     *)
(***************************************************************************)
\* The clock runs over 0..MaxTime.
MaxTime == 2
\* A run makes at most MaxCalls increment calls.
MaxCalls == 3
\* A run makes at most MaxBreaches recordBreach calls and MaxClears clear
\* calls, and at most MaxInflight recordBreach calls are suspended at once.
MaxBreaches == 4
MaxClears == 1
MaxInflight == 2
\* A run handles at most MaxReqs requests in the middleware.
MaxReqs == 3
\* A run sees at most MaxSweeps periodic cleanups and MaxShutdowns shutdown
\* calls.
MaxSweeps == 2
MaxShutdowns == 2
\* A run handles at most MaxWrReqs requests in withRateLimit, at most
\* MaxWrWaiting of them in course at once.
MaxWrReqs == 4
MaxWrWaiting == 2
\* A run makes at most MaxStorageOps calls on a MemoryStorage directly.
MaxStorageOps == 5
\* A run makes at most MaxRedisCalls calls of RedisStorage.increment and
\* reset, at most MaxRedisWaiting of them awaiting the server at once.
MaxRedisCalls == 3
MaxRedisWaiting == 2
\* A client sends at most MaxSeqReqs requests one after the other.
MaxSeqReqs == 5
\* The longest windowMs string configured.
MaxDurationLen == 3

\* The keys requests are counted under.
Keys == {"k1", "k2"}
\* The windows and thresholds a MemoryStore is constructed with.
WindowChoices == {1, 2}
MaxRequestsChoices == {1, 2}
\* The thresholds and windows an AlertManager is constructed with.
ThresholdChoices == {2, 3}
AlertWindowChoices == {1, 2}

VARIABLES
    now,          \* Date.now()
    windowMs,     \* MemoryStore.windowMs
    maxRequests,  \* MemoryStore.maxRequests
    hits,         \* MemoryStore.hits: a Map from key to HitRecord
    calls,        \* the number of increment calls made so far
    hist,         \* per key, the increment calls of the run so far
    tampered,     \* per key, whether decrement or reset was ever called on it
    last,         \* the last store operation and what it returned
    prev,         \* the store operation before it, where it bears on the last
    threshold,    \* AlertManager.options.threshold
    alertWindowMs,\* AlertManager.options.windowMs
    consoleLog,   \* AlertManager.options.consoleLog
    webhookUrl,   \* whether AlertManager.options.webhookUrl is set
    handler,      \* whether AlertManager.options.handler is set
    breaches,     \* AlertManager.breaches: a Map from key to BreachRecord
    inflight,     \* the recordBreach calls suspended at an await
    clears,       \* the number of clear calls made so far
    bcalls,       \* the number of recordBreach calls made so far
    alerts,       \* the alerts triggered so far, with what was done for each
    btimes,       \* per key, the instants of its recordBreach calls since clear
    consumed,     \* per key, how many of those a reset has emptied from the log
    overlapped,   \* per key, whether a call began while another was suspended
    edge,         \* whether the middleware is edgeRateLimiter (else rateLimiter)
    alerting,     \* whether options.alerting is set
    skipOpt,      \* whether options.skip (of withRateLimit: finalOptions.skip) is set
    headersOpt,   \* options.headers !== false
    statusCode,   \* options.statusCode, 0 if not set
    message,      \* options.message, "" if not set
    reqs,         \* the requests the middleware was called with, and their course
    autoCleanup,  \* the autoCleanup the MemoryStore was constructed with
    cleanupInterval, \* whether MemoryStore.cleanupInterval holds a timer (not null)
    sweeps,       \* the number of times the timer has run cleanup
    shutdowns,    \* the shutdown calls made so far, and what each did
    strategy,     \* withRateLimit: finalOptions.strategy
    limit,        \* withRateLimit: finalOptions.limit
    wrWindowMs,   \* withRateLimit: finalOptions.windowMs
    webhook,      \* withRateLimit: whether finalOptions.webhook is set
    onLimitReached, \* withRateLimit: whether finalOptions.onLimitReached is set
    limitHandler, \* withRateLimit: whether finalOptions.handler is set
    storage,      \* MemoryStorage.storage: a Map from key to MemoryRecord
    wreqs,        \* withRateLimit: the requests in course, each at an await
    wcount,       \* withRateLimit: the number of requests received so far
    wlast,        \* withRateLimit: the request answered last, and its response
    served,       \* withRateLimit: per key, the instants of the requests let through
    sops,         \* the number of calls made on the MemoryStorage directly
    swindow,      \* per key, those calls since its current window began
    sret,         \* the last of those calls and what it returned
    redis,        \* the Redis server: a map from key to value and expiry
    rcalls,       \* the number of RedisStorage.increment calls made so far
    rlast,        \* the last of them: what Redis did and what the call gave
    rpending,     \* the RedisStorage calls that await the server, in order
    config        \* the windowMs option last configured and what became of it

storeVars == <<windowMs, maxRequests, hits, calls, hist, tampered, last, prev>>
alertVars == <<threshold, alertWindowMs, consoleLog, webhookUrl, handler,
               breaches, inflight, clears, bcalls, alerts, btimes, consumed,
               overlapped>>
mwVars == <<edge, alerting, skipOpt, headersOpt, statusCode, message, reqs>>
lifeVars == <<autoCleanup, cleanupInterval, sweeps, shutdowns>>
wrVars == <<strategy, limit, wrWindowMs, webhook, onLimitReached, limitHandler,
            storage, wreqs, wcount, wlast, served, sops, swindow, sret,
            redis, rcalls, rlast, rpending, config>>
vars == <<now, storeVars, alertVars, mwVars, lifeVars, wrVars>>

(***************************************************************************)
(* MemoryStore: pure parts.                                                 *)
(***************************************************************************)
\* A filter that keeps a timestamp exactly windowMs old (>= for >).
FreshTimestampsInclusive(timestamps, windowStart) ==
    SelectSeq(timestamps, LAMBDA timestamp : timestamp >= windowStart)

\* Array.prototype.filter(timestamp => timestamp > windowStart)
FreshTimestamps(timestamps, windowStart) ==
    SelectSeq(timestamps, LAMBDA timestamp : timestamp > windowStart)

\* `record.timestamps[0] || now`: 0 is falsy, and so is a missing element.
OldestTimestamp(timestamps, t) ==
    IF Len(timestamps) = 0 \/ timestamps[1] = 0 THEN t ELSE timestamps[1]

\* An increment that loses an update: it writes back the log as it was before
\* an overlapping call of the same instant pushed its timestamp.
IncrementedRecordLostUpdate(store, key, t, w) ==
    LET record == IF key \in DOMAIN store
                  THEN store[key]
                  ELSE [timestamps |-> << >>, resetTime |-> t + w]
        windowStart == t - w
        fresh == FreshTimestamps(record.timestamps, windowStart)
        timestamps == Append(SelectSeq(fresh, LAMBDA timestamp : timestamp < t), t)
    IN  [timestamps |-> timestamps,
         resetTime  |-> OldestTimestamp(timestamps, t) + w]

\* An increment that records a request only while the key is under its limit:
\* a request over the limit leaves no timestamp.
IncrementedRecordAllowedOnly(store, key, t, w) ==
    LET record == IF key \in DOMAIN store
                  THEN store[key]
                  ELSE [timestamps |-> << >>, resetTime |-> t + w]
        windowStart == t - w
        fresh == FreshTimestamps(record.timestamps, windowStart)
        timestamps == IF Len(fresh) >= maxRequests THEN fresh
                      ELSE Append(fresh, t)
    IN  [timestamps |-> timestamps,
         resetTime  |-> OldestTimestamp(timestamps, t) + w]

\* The HitRecord increment(key) leaves for the key at instant t: the looked-up
\* or created record, filtered, with t pushed and resetTime recomputed.
IncrementedRecord(store, key, t, w) ==
    LET record == IF key \in DOMAIN store
                  THEN store[key]
                  ELSE [timestamps |-> << >>, resetTime |-> t + w]
        windowStart == t - w
        timestamps == Append(FreshTimestamps(record.timestamps, windowStart), t)
    IN  [timestamps |-> timestamps,
         resetTime  |-> OldestTimestamp(timestamps, t) + w]

\* A threshold test that flags the maxRequests-th request (>= for >).
RateLimitInfoAtLimit(record, n) ==
    [totalHits |-> Len(record.timestamps),
     resetTime |-> record.resetTime,
     exceeded  |-> Len(record.timestamps) >= n]

\* A threshold test that lets one request too many through.
RateLimitInfoLenient(record, n) ==
    [totalHits |-> Len(record.timestamps),
     resetTime |-> record.resetTime,
     exceeded  |-> Len(record.timestamps) > n + 1]

\* The RateLimitInfo increment returns for a record it has just updated.
RateLimitInfo(record, n) ==
    [totalHits |-> Len(record.timestamps),
     resetTime |-> record.resetTime,
     exceeded  |-> Len(record.timestamps) > n]

\* Map.set(key, record) and Map.delete(key)
MapSet(store, key, record) ==
    [k \in DOMAIN store \cup {key} |-> IF k = key THEN record ELSE store[k]]
MapDelete(store, key) ==
    [k \in DOMAIN store \ {key} |-> store[k]]

\* A sweep that deletes only the records it finds empty, before filtering.
CleanedHitsLazy(store, t, w) ==
    LET windowStart == t - w
        kept == {k \in DOMAIN store : Len(store[k].timestamps) # 0}
    IN  [k \in kept |->
            [store[k] EXCEPT
                !.timestamps = FreshTimestamps(store[k].timestamps, windowStart)]]

\* A sweep that takes the window one millisecond too short: it removes a
\* timestamp that is still inside the window.
CleanedHitsEager(store, t, w) ==
    LET windowStart == t - w + 1
        kept == {k \in DOMAIN store :
                    Len(FreshTimestamps(store[k].timestamps, windowStart)) # 0}
    IN  [k \in kept |->
            [store[k] EXCEPT
                !.timestamps = FreshTimestamps(store[k].timestamps, windowStart)]]

\* The hits map cleanup() leaves at instant t.
CleanedHits(store, t, w) ==
    LET windowStart == t - w
        kept == {k \in DOMAIN store :
                    Len(FreshTimestamps(store[k].timestamps, windowStart)) # 0}
    IN  [k \in kept |->
            [store[k] EXCEPT
                !.timestamps = FreshTimestamps(store[k].timestamps, windowStart)]]

\* A decrement that removes the oldest timestamp (shift for pop).
DecrementedOldest(store, key) ==
    IF key \in DOMAIN store /\ Len(store[key].timestamps) > 0
    THEN [store EXCEPT ![key].timestamps = Tail(store[key].timestamps)]
    ELSE store

\* A decrement that creates the record it does not find.
DecrementedOrCreated(store, key) ==
    IF key \in DOMAIN store
    THEN IF Len(store[key].timestamps) > 0
         THEN [store EXCEPT ![key].timestamps =
                 SubSeq(store[key].timestamps, 1, Len(store[key].timestamps) - 1)]
         ELSE store
    ELSE MapSet(store, key, [timestamps |-> << >>, resetTime |-> 0])

\* The hits map decrement(key) leaves: the last timestamp popped, if any.
DecrementedHits(store, key) ==
    IF key \in DOMAIN store /\ Len(store[key].timestamps) > 0
    THEN [store EXCEPT ![key].timestamps =
            SubSeq(store[key].timestamps, 1, Len(store[key].timestamps) - 1)]
    ELSE store

\* A reset that clears the whole map (Map.clear for Map.delete).
ResetAllHits(store, key) == [k \in {} |-> 0]

\* A reset that removes only the latest hit of the key.
ResetLatestHit(store, key) ==
    IF key \in DOMAIN store /\ Len(store[key].timestamps) > 0
    THEN [store EXCEPT ![key].timestamps =
            SubSeq(store[key].timestamps, 1, Len(store[key].timestamps) - 1)]
    ELSE store

\* The hits map reset(key) leaves.
ResetHits(store, key) == MapDelete(store, key)

(***************************************************************************)
(* Bookkeeping of the run, for the properties below: none of it is read by  *)
(* the operations.                                                          *)
(***************************************************************************)
NoInfo == [totalHits |-> 0, resetTime |-> 0, exceeded |-> FALSE]
\* An operation: its name, its key, the instant it ran at, whether the key had
\* a record and which timestamps it held before, whether the operation changed
\* the hits map, and what increment returned.
NoOp == [op |-> "none", key |-> "none", t |-> 0, had |-> FALSE, pre |-> << >>,
         changed |-> FALSE, info |-> NoInfo]
Brief(l) == [op |-> l.op, key |-> l.key, t |-> l.t, had |-> l.had,
             pre |-> l.pre, changed |-> l.changed]
\* What is kept of the operation l that came right before operation name on
\* key: a decrement or reset of the same key before an increment, a cleanup
\* before a cleanup.
Before(l, name, key) ==
    IF \/ name = "increment" /\ l.key = key /\ l.op \in {"decrement", "reset"}
       \/ name = "cleanup" /\ l.op = "cleanup"
    THEN Brief(l)
    ELSE Brief(NoOp)
Op(name, key, store, store2) ==
    [NoOp EXCEPT !.op = name, !.key = key, !.t = now,
                 !.had = key \in DOMAIN store,
                 !.pre = IF key \in DOMAIN store THEN store[key].timestamps ELSE << >>,
                 !.changed = (store2 # store)]

(***************************************************************************)
(* MemoryStore: operations.  None of them awaits, so each runs to its end   *)
(* without another operation in between.                                    *)
(***************************************************************************)
\* The constructor leaves no hit, and nothing has been called yet.
InitHitsEmpty ==
    /\ hits = [k \in {} |-> 0]
    /\ calls = 0
    /\ hist = [k \in Keys |-> << >>]
    /\ tampered = [k \in Keys |-> FALSE]
    /\ last = NoOp
    /\ prev = Brief(NoOp)
    /\ sweeps = 0
    /\ shutdowns = << >>

\* new MemoryStore(windowMs, maxRequests, false): no timer is set.
InitStoreEmpty ==
    /\ InitHitsEmpty
    /\ autoCleanup = FALSE
    /\ cleanupInterval = FALSE

\* `options.store || new MemoryStore(windowMs, options.maxRequests)`: the
\* store the middleware makes has autoCleanup true and holds the timer; a
\* store that is passed in was constructed with either.
InitStoreOption ==
    /\ windowMs \in WindowChoices
    /\ maxRequests \in MaxRequestsChoices
    /\ InitHitsEmpty
    /\ autoCleanup \in BOOLEAN
    /\ cleanupInterval = autoCleanup

InitStore ==
    /\ windowMs \in WindowChoices
    /\ maxRequests \in MaxRequestsChoices
    /\ InitStoreEmpty

\* new AlertManager({threshold, windowMs, consoleLog, webhookUrl, handler})
InitAlert ==
    /\ threshold \in ThresholdChoices
    /\ alertWindowMs \in AlertWindowChoices
    /\ consoleLog \in BOOLEAN
    /\ webhookUrl \in BOOLEAN
    /\ handler \in BOOLEAN
    /\ breaches = [k \in {} |-> 0]
    /\ inflight = {}
    /\ clears = 0
    /\ bcalls = 0
    /\ alerts = << >>
    /\ btimes = [k \in Keys |-> << >>]
    /\ consumed = [k \in Keys |-> 0]
    /\ overlapped = [k \in Keys |-> FALSE]

\* withRateLimit is not used.
NoRequest == [path |-> "none", handled |-> 0, status |-> 0,
              headers |-> FALSE, retryAfter |-> FALSE, notified |-> FALSE]
\* No call was made on the MemoryStorage directly.
NoUsage == [used |-> 0, reset |-> 0]
NoRecord == [count |-> 0, resetTime |-> 0]
NoStorageOp == [op |-> "none", key |-> "none", t |-> 0, w |-> 0,
                had |-> FALSE, pre |-> NoRecord, usage |-> NoUsage]
\* No call was made on a RedisStorage.
NoRedisCall == [op |-> "none", key |-> "none", t |-> 0, fault |-> "none",
                outcome |-> "none", used |-> 0, reset |-> 0, info |-> NoInfo]
\* No windowMs option was parsed.
NoConfig == [target |-> "none",
             time |-> [type |-> "number", value |-> 0, den |-> 1],
             variant |-> "none", build |-> "none",
             windowMs |-> [type |-> "number", value |-> 0, den |-> 1],
             constructed |-> FALSE]
InitNoStorageOps ==
    /\ sops = 0
    /\ swindow = [k \in Keys |-> [incs |-> 0, decs |-> 0, noops |-> 0]]
    /\ sret = NoStorageOp
    /\ redis = [k \in {} |-> 0]
    /\ rcalls = 0
    /\ rlast = NoRedisCall
    /\ rpending = << >>
    /\ config = NoConfig

InitNoWithRateLimit ==
    /\ InitNoStorageOps
    /\ strategy = "fixed_window"
    /\ limit = 1
    /\ wrWindowMs = 1
    /\ webhook = FALSE /\ onLimitReached = FALSE /\ limitHandler = FALSE
    /\ storage = [k \in {} |-> 0]
    /\ wreqs = << >>
    /\ wcount = 0
    /\ wlast = NoRequest
    /\ served = [k \in Keys |-> << >>]

\* No middleware: the store and the AlertManager are called directly.
InitNoMiddleware ==
    /\ edge = FALSE /\ alerting = FALSE /\ skipOpt = FALSE
    /\ headersOpt = TRUE
    /\ statusCode = 0 /\ message = ""
    /\ reqs = << >>
    /\ InitNoWithRateLimit

\* A MemoryStore alone: the AlertManager beside it is never called.
Init ==
    /\ now = 0
    /\ InitStore
    /\ InitAlert
    /\ InitNoMiddleware
    /\ threshold = 2 /\ alertWindowMs = 1
    /\ consoleLog /\ ~webhookUrl /\ ~handler

\* Time passes.
Tick ==
    /\ now < MaxTime
    /\ now' = now + 1
    /\ UNCHANGED <<storeVars, alertVars, mwVars, lifeVars, wrVars>>

increment(key) ==
    /\ calls < MaxCalls
    /\ LET record == IncrementedRecord(hits, key, now, windowMs)
           info == RateLimitInfo(record, maxRequests)
           entry == [t |-> now, fresh |-> key \notin DOMAIN hits,
                     totalHits |-> info.totalHits, resetTime |-> info.resetTime,
                     exceeded |-> info.exceeded]
       IN  /\ hits' = MapSet(hits, key, record)
           /\ hist' = [hist EXCEPT ![key] =
                          IF tampered[key] THEN << >> ELSE Append(@, entry)]
           /\ last' = [Op("increment", key, hits, hits') EXCEPT !.info = info]
    /\ calls' = calls + 1
    /\ prev' = Before(last, "increment", key)
    /\ UNCHANGED <<now, windowMs, maxRequests, tampered, alertVars, mwVars, lifeVars, wrVars>>

decrement(key) ==
    /\ hits' = DecrementedHits(hits, key)
    /\ tampered' = [tampered EXCEPT ![key] = TRUE]
    /\ hist' = [hist EXCEPT ![key] = << >>]
    /\ last' = Op("decrement", key, hits, hits')
    /\ prev' = Before(last, "decrement", key)
    /\ UNCHANGED <<now, windowMs, maxRequests, calls, alertVars, mwVars, lifeVars, wrVars>>

reset(key) ==
    /\ hits' = ResetHits(hits, key)
    /\ tampered' = [tampered EXCEPT ![key] = TRUE]
    /\ hist' = [hist EXCEPT ![key] = << >>]
    /\ last' = Op("reset", key, hits, hits')
    /\ prev' = Before(last, "reset", key)
    /\ UNCHANGED <<now, windowMs, maxRequests, calls, alertVars, mwVars, lifeVars, wrVars>>

cleanup ==
    /\ hits' = CleanedHits(hits, now, windowMs)
    /\ last' = Op("cleanup", "none", hits, hits')
    /\ prev' = Before(last, "cleanup", "none")
    /\ UNCHANGED <<now, windowMs, maxRequests, calls, hist, tampered, alertVars, mwVars, lifeVars, wrVars>>

Next ==
    \/ Tick
    \/ \E key \in Keys : increment(key)
    \/ \E key \in Keys : decrement(key)
    \/ \E key \in Keys : reset(key)
    \/ cleanup

Spec == Init /\ [][Next]_vars

\* new MemoryStore(0, maxRequests, false): a window of no length.
InitZeroWindow ==
    /\ now = 0
    /\ windowMs = 0
    /\ maxRequests \in MaxRequestsChoices
    /\ InitStoreEmpty
    /\ InitAlert
    /\ InitNoMiddleware
    /\ threshold = 2 /\ alertWindowMs = 1
    /\ consoleLog /\ ~webhookUrl /\ ~handler
SpecZeroWindow == InitZeroWindow /\ [][Next]_vars

(***************************************************************************)
(* MemoryStore: the periodic cleanup and shutdown.  With autoCleanup the    *)
(* constructor sets a timer that calls cleanup() every five minutes, for as *)
(* long as it is not cleared; the model lets it fire at any instant.        *)
(***************************************************************************)
\* A shutdown that uses the timer without testing for null: it throws a
\* TypeError when there is none.
ShutdownUnguarded(interval) ==
    [interval |-> FALSE, threw |-> ~interval, cleared |-> interval]

\* A shutdown that leaves the timer running.
ShutdownKeepsTimer(interval) ==
    [interval |-> interval, threw |-> FALSE, cleared |-> FALSE]

\* shutdown(): if a timer is held, clearInterval and forget it.  Gives what
\* cleanupInterval holds afterwards, whether the call threw, and whether a
\* timer was cleared.
Shutdown(interval) ==
    [interval |-> FALSE, threw |-> FALSE, cleared |-> interval]

\* The timer fires: cleanup() runs.
sweep ==
    /\ cleanupInterval
    /\ sweeps < MaxSweeps
    /\ sweeps' = sweeps + 1
    /\ hits' = CleanedHits(hits, now, windowMs)
    /\ last' = Op("cleanup", "none", hits, hits')
    /\ prev' = Before(last, "cleanup", "none")
    /\ UNCHANGED <<now, windowMs, maxRequests, calls, hist, tampered, alertVars,
                   mwVars, wrVars, autoCleanup, cleanupInterval, shutdowns>>

\* shutdown()
shutdown ==
    /\ Len(shutdowns) < MaxShutdowns
    /\ LET done == Shutdown(cleanupInterval)
       IN  /\ cleanupInterval' = done.interval
           /\ shutdowns' = Append(shutdowns,
                              [had |-> cleanupInterval, threw |-> done.threw,
                               cleared |-> done.cleared, sweeps |-> sweeps,
                               calls |-> IF cleanupInterval THEN calls ELSE 0])
    /\ UNCHANGED <<now, storeVars, alertVars, mwVars, wrVars, autoCleanup,
                   sweeps>>

\* new MemoryStore(windowMs, maxRequests, autoCleanup)
InitLifecycle ==
    /\ now = 0
    /\ windowMs \in WindowChoices
    /\ maxRequests \in MaxRequestsChoices
    /\ hits = [k \in {} |-> 0]
    /\ calls = 0
    /\ hist = [k \in Keys |-> << >>]
    /\ tampered = [k \in Keys |-> FALSE]
    /\ last = NoOp
    /\ prev = Brief(NoOp)
    /\ autoCleanup \in BOOLEAN
    /\ cleanupInterval = autoCleanup
    /\ sweeps = 0
    /\ shutdowns = << >>
    /\ InitAlert
    /\ threshold = 2 /\ alertWindowMs = 1
    /\ consoleLog = TRUE /\ webhookUrl = FALSE /\ handler = FALSE
    /\ InitNoMiddleware

NextLifecycle ==
    \/ Tick
    \/ \E key \in Keys : increment(key)
    \/ sweep
    \/ shutdown

SpecLifecycle == InitLifecycle /\ [][NextLifecycle]_vars

(***************************************************************************)
(* AlertManager (alerting/alert-manager.ts).                                *)
(*                                                                          *)
(* recordBreach runs without interruption up to its first await.  When the  *)
(* threshold is reached it awaits triggerAlert, which awaits the webhook's  *)
(* fetch and the custom handler in turn; the caller, and with it other      *)
(* recordBreach calls, run while it is suspended.  A suspended call holds   *)
(* the BreachRecord object it looked up: after clear() that object is no    *)
(* longer the one in the map.                                               *)
(***************************************************************************)
\* A filter that keeps a breach exactly windowMs old (>= for >).
FreshBreachesInclusive(recentBreaches, windowStart) ==
    SelectSeq(recentBreaches, LAMBDA timestamp : timestamp >= windowStart)

\* recentBreaches.filter((timestamp) => timestamp > windowStart)
FreshBreaches(recentBreaches, windowStart) ==
    SelectSeq(recentBreaches, LAMBDA timestamp : timestamp > windowStart)

\* A recordBreach that keeps in count the length of the recent log: count
\* falls when breaches expire and restarts after an alert.
RecordedBreachWindowCount(store, key, t, w, era) ==
    LET record == IF key \in DOMAIN store
                  THEN store[key]
                  ELSE [count |-> 0, firstBreach |-> t,
                        recentBreaches |-> << >>, id |-> era]
        windowStart == t - w
        recent == Append(FreshBreaches(record.recentBreaches, windowStart), t)
    IN  [record EXCEPT !.recentBreaches = recent, !.count = Len(recent)]

\* The BreachRecord recordBreach(key) leaves for the key at instant t, before
\* the threshold test.  id tells the record objects of one key apart: clear()
\* is what drops a record, so a key has one per clear.
RecordedBreach(store, key, t, w, era) ==
    LET record == IF key \in DOMAIN store
                  THEN store[key]
                  ELSE [count |-> 0, firstBreach |-> t,
                        recentBreaches |-> << >>, id |-> era]
        windowStart == t - w
    IN  [record EXCEPT
            !.recentBreaches = Append(FreshBreaches(@, windowStart), t),
            !.count = @ + 1]

\* if (record.recentBreaches.length >= this.options.threshold)
ShouldTrigger(record, n) == Len(record.recentBreaches) >= n

\* Whether x is in the log of what was done for an alert, and how often.
Has(log, x) == \E i \in DOMAIN log : log[i] = x
Count(log, x) == Cardinality({i \in DOMAIN log : log[i] = x})

\* A triggerAlert that calls the custom handler outside any try: what the
\* handler throws rejects triggerAlert.
HandlerStageUncaught(log, throws) ==
    IF handler
    THEN IF throws
         THEN [log |-> log \o <<"handler", "handler failed">>,
               pc |-> "rejected"]
         ELSE [log |-> Append(log, "handler"), pc |-> "handler"]
    ELSE [log |-> log, pc |-> "reset"]

\* The end of triggerAlert, for an alert with the attempts in log made: the
\* custom handler, if set, is called, and either throws at once (caught and
\* logged) or returns what is then awaited.  Gives the log and where the
\* recordBreach call is suspended next.  In the log, "handler" is the call of
\* the handler, "handler failed" its throwing or rejecting, and "handler
\* error" the console.error that reports it; likewise for the webhook.
HandlerStage(log, throws) ==
    IF handler
    THEN IF throws
         THEN [log |-> log \o <<"handler", "handler failed", "handler error">>,
               pc |-> "reset"]
         ELSE [log |-> Append(log, "handler"), pc |-> "handler"]
    ELSE [log |-> log, pc |-> "reset"]

\* A triggerAlert that does not await sendWebhook: the custom handler is
\* called while the webhook's fetch is still pending.
TriggerStageUnawaited(throws, fetchThrows) ==
    LET log == IF consoleLog THEN <<"console">> ELSE << >>
    IN  IF webhookUrl
        THEN [log |-> HandlerStage(Append(log, "webhook"), throws).log,
              pc |-> "webhook"]
        ELSE HandlerStage(log, throws)

\* triggerAlert up to its first await: console.warn if consoleLog, then
\* sendWebhook if webhookUrl, else the custom handler.  sendWebhook calls
\* fetch inside its try: a fetch that throws at once is caught and logged
\* there and then, and sendWebhook returns; otherwise the call is suspended
\* at `await fetch`.  Either way triggerAlert awaits sendWebhook and calls
\* the custom handler in a later turn.
TriggerStage(throws, fetchThrows) ==
    LET log == IF consoleLog THEN <<"console">> ELSE << >>
    IN  IF webhookUrl
        THEN IF fetchThrows
             THEN [log |-> log \o <<"webhook", "webhook failed",
                                    "webhook error">>,
                   pc |-> "sent"]
             ELSE [log |-> Append(log, "webhook"), pc |-> "webhook"]
        ELSE HandlerStage(log, throws)

\* A recordBreach that never empties the log after an alert.
RecentBreachesKept(store, c) == store

\* A recordBreach that empties the log only when the alert was delivered.
RecentBreachesResetIfDelivered(store, c) ==
    IF /\ c.key \in DOMAIN store /\ store[c.key].id = c.id
       /\ ~Has(alerts[c.alert].log, "webhook failed")
       /\ ~Has(alerts[c.alert].log, "handler failed")
    THEN [store EXCEPT ![c.key].recentBreaches = << >>]
    ELSE store

\* record.recentBreaches = [], on the record object the call c holds.
RecentBreachesReset(store, c) ==
    IF c.key \in DOMAIN store /\ store[c.key].id = c.id
    THEN [store EXCEPT ![c.key].recentBreaches = << >>]
    ELSE store

\* recordBreach(key), up to its return or its first await: what the call does
\* to the AlertManager.
RecordBreachCall(key) ==
    /\ bcalls < MaxBreaches
    /\ bcalls' = bcalls + 1
    /\ Cardinality(inflight) < MaxInflight
    /\ LET record == RecordedBreach(breaches, key, now, alertWindowMs, clears)
       IN  /\ breaches' = MapSet(breaches, key, record)
           /\ btimes' = [btimes EXCEPT ![key] = Append(@, now)]
           /\ overlapped' = [overlapped EXCEPT
                                ![key] = @ \/ \E c \in inflight : c.key = key]
           /\ IF ShouldTrigger(record, threshold)
              THEN \E throws \in BOOLEAN,
                      fetchThrows \in (IF webhookUrl THEN BOOLEAN
                                       ELSE {FALSE}) :
                     LET stage == TriggerStage(throws, fetchThrows)
                     IN  /\ alerts' = Append(alerts,
                                [key |-> key, breachCount |-> record.count,
                                 timestamp |-> now, n |-> Len(btimes[key]) + 1,
                                 era |-> clears, consumed |-> consumed[key],
                                 log |-> stage.log])
                         /\ inflight' = inflight \cup
                                {[key |-> key, id |-> record.id,
                                  alert |-> Len(alerts) + 1, pc |-> stage.pc]}
              ELSE UNCHANGED <<alerts, inflight>>
    /\ UNCHANGED <<threshold, alertWindowMs, consoleLog, webhookUrl, handler,
                   clears, consumed>>

\* recordBreach(key), called on the AlertManager directly.
recordBreach(key) ==
    /\ RecordBreachCall(key)
    /\ UNCHANGED <<now, storeVars, mwVars, lifeVars, wrVars>>

\* How the webhook's fetch settles: an ok response, a response that is not
\* ok, or a rejection.
FetchOutcomes == {"ok", "not ok", "rejected"}

\* A sendWebhook with no try around the fetch: a failure rejects it, and with
\* it triggerAlert.
WebhookStageUncaught(log, outcome) ==
    IF outcome = "ok"
    THEN [log |-> log, pc |-> "sent"]
    ELSE [log |-> Append(log, "webhook failed"), pc |-> "rejected"]

\* The rest of sendWebhook once the fetch has settled: a response that is
\* not ok is thrown as an Error, and that Error or the fetch's rejection is
\* caught and logged; sendWebhook returns, and triggerAlert, which awaits
\* it, goes on in a later turn.
WebhookStage(log, outcome) ==
    IF outcome = "ok"
    THEN [log |-> log, pc |-> "sent"]
    ELSE [log |-> log \o <<"webhook failed", "webhook error">>, pc |-> "sent"]

\* The webhook's fetch settles.
webhookSettled(c) ==
    /\ c.pc = "webhook"
    /\ \E outcome \in FetchOutcomes :
         LET stage == WebhookStage(alerts[c.alert].log, outcome)
         IN  /\ alerts' = [alerts EXCEPT ![c.alert].log = stage.log]
             /\ inflight' = (inflight \ {c}) \cup {[c EXCEPT !.pc = stage.pc]}
    /\ UNCHANGED <<now, storeVars, mwVars, lifeVars, wrVars, threshold, alertWindowMs, consoleLog,
                   webhookUrl, handler, breaches, clears, bcalls, btimes,
                   consumed, overlapped>>

\* sendWebhook has returned: triggerAlert resumes after `await
\* this.sendWebhook(data)` and comes to the custom handler.
sendWebhookReturned(c) ==
    /\ c.pc = "sent"
    /\ \E throws \in BOOLEAN :
         LET stage == HandlerStage(alerts[c.alert].log, throws)
         IN  /\ alerts' = [alerts EXCEPT ![c.alert].log = stage.log]
             /\ inflight' = (inflight \ {c}) \cup {[c EXCEPT !.pc = stage.pc]}
    /\ UNCHANGED <<now, storeVars, mwVars, lifeVars, wrVars, threshold, alertWindowMs, consoleLog,
                   webhookUrl, handler, breaches, clears, bcalls, btimes,
                   consumed, overlapped>>

\* What the custom handler returned settles: fulfilled, or rejected, which is
\* caught and logged in triggerAlert.
handlerSettled(c) ==
    /\ c.pc = "handler"
    /\ \E ok \in BOOLEAN :
         alerts' = [alerts EXCEPT ![c.alert].log =
                       IF ok THEN @
                       ELSE @ \o <<"handler failed", "handler error">>]
    /\ inflight' = (inflight \ {c}) \cup {[c EXCEPT !.pc = "reset"]}
    /\ UNCHANGED <<now, storeVars, mwVars, lifeVars, wrVars, threshold, alertWindowMs, consoleLog,
                   webhookUrl, handler, breaches, clears, bcalls, btimes,
                   consumed, overlapped>>

\* recordBreach resumes after triggerAlert: it empties the log and returns.
\* Had triggerAlert rejected, the await would throw: recordBreach has no try,
\* so it would reject without emptying the log.
recordBreachResumed(c) ==
    /\ c.pc \in {"reset", "rejected"}
    /\ IF c.pc = "reset"
       THEN /\ breaches' = RecentBreachesReset(breaches, c)
            /\ consumed' = IF /\ c.key \in DOMAIN breaches
                              /\ breaches[c.key].id = c.id
                           THEN [consumed EXCEPT ![c.key] = Len(btimes[c.key])]
                           ELSE consumed
            /\ alerts' = [alerts EXCEPT ![c.alert].log = Append(@, "returned")]
       ELSE /\ alerts' = [alerts EXCEPT ![c.alert].log = Append(@, "rejected")]
            /\ UNCHANGED <<breaches, consumed>>
    /\ inflight' = inflight \ {c}
    /\ UNCHANGED <<now, storeVars, mwVars, lifeVars, wrVars, threshold, alertWindowMs, consoleLog,
                   webhookUrl, handler, clears, bcalls, btimes, overlapped>>

\* A clear that empties each record's recentBreaches and keeps its count.
BreachesRecentCleared(store) ==
    [k \in DOMAIN store |-> [store[k] EXCEPT !.recentBreaches = << >>]]

\* this.breaches.clear()
BreachesCleared(store) == [k \in {} |-> 0]

\* clear()
clear ==
    /\ clears < MaxClears
    /\ breaches' = BreachesCleared(breaches)
    /\ clears' = clears + 1
    /\ btimes' = [k \in Keys |-> << >>]
    /\ consumed' = [k \in Keys |-> 0]
    /\ UNCHANGED <<now, storeVars, mwVars, lifeVars, wrVars, threshold, alertWindowMs, consoleLog,
                   webhookUrl, handler, inflight, bcalls, alerts, overlapped>>

\* An AlertManager alone: the MemoryStore beside it is never called.
InitDelivery ==
    /\ now = 0
    /\ InitAlert
    /\ InitStore
    /\ InitNoMiddleware
    /\ windowMs = 1 /\ maxRequests = 1

\* An AlertManager with no webhookUrl and no handler: triggerAlert awaits
\* nothing, and recordBreach is suspended only at its own await.
InitAlertOnly ==
    /\ InitDelivery
    /\ ~webhookUrl /\ ~handler

NextAlert ==
    \/ Tick
    \/ \E key \in Keys : recordBreach(key)
    \/ \E c \in inflight : recordBreachResumed(c)
    \/ clear

SpecAlert == InitAlertOnly /\ [][NextAlert]_vars

\* An AlertManager with any of its channels.  Delivery reads no clock: the
\* calls and their deliveries are followed at one reading of Date.now().
NextDelivery ==
    \/ \E key \in Keys : recordBreach(key)
    \/ \E c \in inflight : webhookSettled(c)
    \/ \E c \in inflight : sendWebhookReturned(c)
    \/ \E c \in inflight : handlerSettled(c)
    \/ \E c \in inflight : recordBreachResumed(c)
    \/ clear

\* The deliveries are followed at one reading of Date.now(): the length of
\* the alert window plays no part.
InitDeliveryAtOnce ==
    /\ InitDelivery
    /\ alertWindowMs = 1

SpecDelivery == InitDeliveryAtOnce /\ [][NextDelivery]_vars

(***************************************************************************)
(* The middleware: rateLimiter (middleware/api-route-limiter.ts) and         *)
(* edgeRateLimiter (middleware/edge-limiter.ts).  Both run a request up to   *)
(* `await store.increment(key)`, resume with what it returned, and, for a    *)
(* request over the limit with alerting set, await recordBreach before they  *)
(* respond.  The store is options.store: a MemoryStore, or a store like it   *)
(* whose increment may reject.                                               *)
(***************************************************************************)
\* defaultOptions.statusCode and defaultOptions.message
DefaultStatusCode == 429
DefaultMessage == "Too many requests, please try again later."
\* The options.statusCode and options.message a middleware is made with; 0
\* and "" are falsy, as is an option left out.
StatusCodeChoices == {0, 503}
MessageChoices == {"", "Slow down"}

NoHeaders == [set |-> FALSE, limit |-> 0, remaining |-> 0, reset |-> 0]
NoResponse == [kind |-> "none", status |-> 0, message |-> ""]
\* NextResponse.next()
NextResponse == [kind |-> "next", status |-> 0, message |-> ""]

\* A request as the middleware receives it: key is what keyGenerator(req)
\* gives, skips what options.skip(req) gives.  The other fields follow its
\* course: where it is suspended, what store.increment returned or that it
\* rejected, the alert its recordBreach call triggered, how often the wrapped
\* handler was invoked, the response and the rate-limit headers, the keys
\* store.increment and recordBreach were called with, and whether the catch
\* branch logged an error.
NewRequest(key, skips) ==
    [key |-> key, skips |-> skips, pc |-> "start", failed |-> FALSE,
     info |-> NoInfo, alert |-> 0, handled |-> 0, response |-> NoResponse,
     headers |-> NoHeaders, incKeys |-> << >>, breachKeys |-> << >>,
     logged |-> FALSE]

\* A skip test that never skips.
ShouldSkipNever(has, result) == FALSE

\* options.skip && options.skip(req)
ShouldSkip(has, result) == has /\ result

\* The three X-RateLimit headers.
RateLimitHeaders(info, n) ==
    [set |-> TRUE, limit |-> n,
     remaining |-> IF n - info.totalHits > 0 THEN n - info.totalHits ELSE 0,
     reset |-> (info.resetTime + 999) \div 1000]

\* A limit test that lets every request through.
LimitedNever(info) == FALSE

\* if (rateLimitInfo.exceeded)
Limited(info) == info.exceeded

\* A breach test that records a breach for every counted request.
ShouldRecordBreachAlways(info, on) == on

\* rateLimitInfo.exceeded && alertManager
ShouldRecordBreach(info, on) == info.exceeded /\ on

\* The rate-limit response: res.status(options.statusCode || 429).json(...)
\* and createRateLimitExceededResponse.
ExceededResponse(code, text) ==
    [kind |-> "limited",
     status |-> IF code = 0 THEN DefaultStatusCode ELSE code,
     message |-> IF text = "" THEN DefaultMessage ELSE text]

\* The request goes on: handler(req, res), or NextResponse.next() at the edge.
Passed(r, isEdge) ==
    IF isEdge
    THEN [r EXCEPT !.pc = "done", !.response = NextResponse]
    ELSE [r EXCEPT !.pc = "done", !.handled = @ + 1]

\* A catch branch that answers with the rate-limit response.
FailClosed(r, isEdge) ==
    [r EXCEPT !.pc = "done", !.logged = TRUE,
              !.response = ExceededResponse(statusCode, message)]

\* The catch branch: console.error, then the request goes on.  At the edge
\* it goes on with a new NextResponse.next(): the headers set on the
\* response built in the try are not on it.  rateLimiter set them on res,
\* where they stay.
FailOpen(r, isEdge) ==
    Passed([r EXCEPT !.logged = TRUE,
                     !.headers = IF isEdge THEN NoHeaders ELSE @], isEdge)

\* A request under the limit.  rateLimiter calls the handler inside its try:
\* what the handler throws at once lands in the catch branch.
Allowed(r, isEdge, throws) ==
    IF ~isEdge /\ throws
    THEN FailOpen(Passed(r, isEdge), isEdge)
    ELSE Passed(r, isEdge)

\* The request is answered with the rate-limit response.
Responded(r) ==
    [r EXCEPT !.pc = "done", !.response = ExceededResponse(statusCode, message)]

\* The middleware is called with a request and runs up to its first await,
\* or to its end if the request is skipped.
Arrived(key, skips) ==
    /\ LET r == NewRequest(key, skips)
       IN  IF ShouldSkip(skipOpt, skips)
           THEN /\ reqs' = Append(reqs, Passed(r, edge))
                /\ UNCHANGED hits
           ELSE \E fails \in BOOLEAN :
                  LET called == [r EXCEPT !.pc = "increment",
                                          !.incKeys = Append(@, key)]
                      record == IncrementedRecord(hits, key, now, windowMs)
                  IN  IF fails
                      THEN /\ reqs' = Append(reqs, [called EXCEPT !.failed = TRUE])
                           /\ UNCHANGED hits
                      ELSE /\ reqs' = Append(reqs,
                                  [called EXCEPT
                                      !.info = RateLimitInfo(record, maxRequests)])
                           /\ hits' = MapSet(hits, key, record)
    /\ UNCHANGED <<now, windowMs, maxRequests, calls, hist, tampered, last, prev,
                   alertVars, lifeVars, wrVars, edge, alerting, skipOpt, headersOpt,
                   statusCode, message>>

requestArrives(key, skips) ==
    /\ Len(reqs) < MaxReqs
    /\ Arrived(key, skips)

\* The same for a client that sends a request once those before it are
\* answered.
requestFollows(key) ==
    /\ Len(reqs) < MaxSeqReqs
    /\ \A i \in DOMAIN reqs : reqs[i].pc = "done"
    /\ Arrived(key, FALSE)

\* store.increment has settled: the request resumes, up to its end or to
\* `await alertManager.recordBreach(...)`.
requestResumed(i) ==
    /\ reqs[i].pc = "increment"
    /\ IF reqs[i].failed
       THEN /\ reqs' = [reqs EXCEPT ![i] = FailOpen(@, edge)]
            /\ UNCHANGED alertVars
       ELSE LET r == [reqs[i] EXCEPT
                         !.headers = IF headersOpt
                                     THEN RateLimitHeaders(reqs[i].info, maxRequests)
                                     ELSE NoHeaders]
            IN  IF ShouldRecordBreach(r.info, alerting)
                THEN /\ RecordBreachCall(r.key)
                     /\ reqs' = [reqs EXCEPT ![i] =
                                   [r EXCEPT !.pc = "breach",
                                             !.breachKeys = Append(@, r.key),
                                             !.alert = IF Len(alerts') > Len(alerts)
                                                       THEN Len(alerts')
                                                       ELSE 0]]
                ELSE /\ UNCHANGED alertVars
                     /\ IF Limited(r.info)
                        THEN reqs' = [reqs EXCEPT ![i] = Responded(r)]
                        ELSE \E throws \in BOOLEAN :
                               reqs' = [reqs EXCEPT ![i] = Allowed(r, edge, throws)]
    /\ UNCHANGED <<now, storeVars, lifeVars, wrVars, edge, alerting, skipOpt,
                   headersOpt, statusCode, message>>

\* recordBreach has returned: the request resumes and is answered.  Had
\* recordBreach rejected, the catch branch would take over.
requestReturned(i) ==
    /\ reqs[i].pc = "breach"
    /\ \A c \in inflight : c.alert # reqs[i].alert
    /\ reqs' = [reqs EXCEPT ![i] =
                  IF @.alert # 0 /\ Has(alerts[@.alert].log, "rejected")
                  THEN FailOpen(@, edge)
                  ELSE IF Limited(@.info) \/ ~edge
                       THEN Responded(@)
                       ELSE Passed(@, edge)]
    /\ UNCHANGED <<now, storeVars, alertVars, lifeVars, wrVars, edge, alerting,
                   skipOpt, headersOpt, statusCode, message>>

\* rateLimiter(options) or edgeRateLimiter(options), with a store and, if
\* alerting is set, an AlertManager that logs to the console.  options.skip
\* is set: a skip that returns false for every request is as good as none.
InitMiddleware ==
    /\ now = 0
    /\ InitStoreOption
    /\ windowMs = 1
    /\ InitAlert
    /\ threshold = 2 /\ alertWindowMs = 2
    /\ consoleLog = TRUE /\ webhookUrl = FALSE /\ handler = FALSE
    /\ edge \in BOOLEAN
    /\ alerting \in BOOLEAN
    /\ skipOpt = TRUE
    /\ headersOpt \in BOOLEAN
    /\ statusCode \in StatusCodeChoices
    /\ message \in MessageChoices
    /\ reqs = << >>
    /\ InitNoWithRateLimit

\* The requests are followed at one reading of Date.now().
NextMiddleware ==
    \/ \E key \in Keys, skips \in BOOLEAN :
          (skips => skipOpt) /\ requestArrives(key, skips)
    \/ \E i \in DOMAIN reqs : requestResumed(i)
    \/ \E i \in DOMAIN reqs : requestReturned(i)
    \/ \E c \in inflight : recordBreachResumed(c)

SpecMiddleware == InitMiddleware /\ [][NextMiddleware]_vars

\* rateLimiter(options) or edgeRateLimiter(options) with alerting set and no
\* skip, and requests that come one after the other, at one reading of
\* Date.now().
InitEndToEnd ==
    /\ now = 0
    /\ InitStoreOption
    /\ windowMs = 1
    /\ InitAlert
    /\ alertWindowMs = 2
    /\ consoleLog = TRUE /\ webhookUrl = FALSE /\ handler = FALSE
    /\ edge \in BOOLEAN
    /\ alerting = TRUE
    /\ skipOpt = FALSE
    /\ headersOpt = TRUE
    /\ statusCode = 0 /\ message = ""
    /\ reqs = << >>
    /\ InitNoWithRateLimit

NextEndToEnd ==
    \/ \E key \in Keys : requestFollows(key)
    \/ \E i \in DOMAIN reqs : requestResumed(i)
    \/ \E i \in DOMAIN reqs : requestReturned(i)
    \/ \E c \in inflight : recordBreachResumed(c)

SpecEndToEnd == InitEndToEnd /\ [][NextEndToEnd]_vars

(***************************************************************************)
(* withRateLimit (middleware.ts) over a MemoryStorage (storage/memory.ts).  *)
(*                                                                          *)
(* rateLimitedHandler is an async function: a request runs from one await   *)
(* to the next in one step, and between two of its steps other requests     *)
(* are taken and go on.  The awaits are those of finalOptions.skip (line    *)
(* 49), storage.increment (65), webhookHandler.notify (81) with the fetch   *)
(* and the response.text() inside it, finalOptions.onLimitReached (86) and  *)
(* handler(req) (101); a request that returned a promise (lines 50, 91,     *)
(* 119) is answered when that promise settles.  The call of                 *)
(* storage.increment has updated the storage by the time it is awaited.     *)
(***************************************************************************)
\* The strategies, limits and windows withRateLimit is called with.
Strategies == {"fixed_window", "sliding_window"}
LimitChoices == {1, 2}
WrWindowChoices == {2}

\* An increment that moves the end of the window on every call, as an expiry
\* renewed on every call does.
FixedIncrementedExtending(store, key, t, w) ==
    IF key \notin DOMAIN store \/ t >= store[key].resetTime
    THEN [count |-> 1, resetTime |-> t + w]
    ELSE [count |-> store[key].count + 1, resetTime |-> t + w]

\* MemoryStorage.increment: the MemoryRecord it leaves for the key.
FixedIncremented(store, key, t, w) ==
    IF key \notin DOMAIN store \/ t >= store[key].resetTime
    THEN [count |-> 1, resetTime |-> t + w]
    ELSE [store[key] EXCEPT !.count = @ + 1]

\* The RateLimitUsage it returns: used, and reset in seconds.  (limit and
\* remaining are Infinity and Infinity - used; withRateLimit replaces the
\* first and never reads the second.)
Usage(record) ==
    [used |-> record.count, reset |-> record.resetTime \div 1000]

\* What the wrapped handler returns goes out as it is: no header is added.
HandlerResponse(path, n) ==
    [path |-> path, handled |-> n, status |-> 200, headers |-> FALSE,
     retryAfter |-> FALSE, notified |-> FALSE]

\* Whether a callback throws when it is called: either, if it is called.
Thrown(called) ==
    IF called THEN BOOLEAN ELSE {FALSE}

\* rateLimitedHandler(req) has been called and has not run yet.  A request
\* in course has its key, the instant t of its storage.increment and the
\* usage that returned (once it is called), the await pc it is at, the
\* number of calls of the wrapped handler it has made, and the path it took
\* (once that is settled).
Called(key) ==
    [key |-> key, t |-> 0, usage |-> NoUsage, pc |-> "call",
     handled |-> 0, path |-> "none"]

\* The promise rateLimitedHandler returned rejects: the request gets no
\* response of it.
Rejected(r) ==
    [r EXCEPT !.pc = "done", !.path = "rejected"]

\* catch (error): console.error and `return handler(req)`, whose promise the
\* request then waits for; if this call of the handler throws, nothing
\* catches it.
Caught(r, catchThrows) ==
    IF catchThrows
    THEN Rejected([r EXCEPT !.handled = @ + 1])
    ELSE [r EXCEPT !.pc = "return", !.path = "error", !.handled = @ + 1]

\* Lines 89-97: `return finalOptions.handler(req, ...)` if a custom limit
\* handler is set, and if it throws the catch branch; the default 429 if not.
LimitResponse(r, limitHandlerThrows, catchThrows) ==
    IF limitHandler
    THEN IF limitHandlerThrows
         THEN Caught(r, catchThrows)
         ELSE [r EXCEPT !.pc = "return", !.path = "custom"]
    ELSE [r EXCEPT !.pc = "done", !.path = "limited"]

\* Lines 84-87: onLimitReached is called and awaited, if it is set and does
\* not throw at once; what follows otherwise.
LimitReached(r, olrThrows, limitHandlerThrows, catchThrows) ==
    IF onLimitReached
    THEN IF olrThrows
         THEN Caught(r, catchThrows)
         ELSE [r EXCEPT !.pc = "onLimitReached"]
    ELSE LimitResponse(r, limitHandlerThrows, catchThrows)

\* Lines 79-82: webhookHandler.notify is called and awaited, if a webhook is
\* set.  notify runs to its `await fetch`; if building the body or the call
\* of fetch throws, notify catches it, logs it and returns.
Notified(r, fetchThrows, olrThrows, limitHandlerThrows, catchThrows) ==
    IF webhook
    THEN [r EXCEPT !.pc = IF fetchThrows THEN "notify" ELSE "fetch"]
    ELSE LimitReached(r, olrThrows, limitHandlerThrows, catchThrows)

\* Lines 66-101, from the usage storage.increment returned to the next await:
\* over the limit the notifications, else handler(req), called once more in
\* the catch branch if it throws.
Incremented(r, fetchThrows, olrThrows, limitHandlerThrows, handlerThrows, catchThrows) ==
    IF r.usage.used > limit
    THEN Notified(r, fetchThrows, olrThrows, limitHandlerThrows, catchThrows)
    ELSE IF handlerThrows
         THEN Caught([r EXCEPT !.handled = 1], catchThrows)
         ELSE [r EXCEPT !.pc = "handler", !.handled = 1]

\* The response of a request that is answered, by the path it took: the path,
\* how often the wrapped handler was called, the status (200 stands for
\* whatever the wrapped handler answers), whether the response carries the
\* X-RateLimit headers and Retry-After, and whether the webhook was notified.
\* A request whose promise rejects has no response: its status is 0.
Response(r) ==
    LET over == r.usage.used > limit
    IN  CASE r.path = "limited" ->
               [path |-> "limited", handled |-> r.handled, status |-> 429,
                headers |-> TRUE, retryAfter |-> TRUE, notified |-> webhook]
          [] r.path = "custom" ->
               [path |-> "custom", handled |-> r.handled, status |-> 429,
                headers |-> FALSE, retryAfter |-> FALSE, notified |-> webhook]
          [] r.path = "allowed" ->
               [path |-> "allowed", handled |-> r.handled, status |-> 200,
                headers |-> TRUE, retryAfter |-> FALSE, notified |-> FALSE]
          [] r.path = "rejected" ->
               [path |-> "rejected", handled |-> r.handled, status |-> 0,
                headers |-> FALSE, retryAfter |-> FALSE,
                notified |-> webhook /\ over]
          [] OTHER ->
               [HandlerResponse(r.path, r.handled)
                   EXCEPT !.notified = webhook /\ over]

\* The requests in course without the i-th of them.
Without(course, i) ==
    [j \in 1..(Len(course) - 1) |-> IF j < i THEN course[j] ELSE course[j + 1]]

\* The i-th request in course goes on as q: it waits at its next await, or
\* it is answered and no longer in course.  A request that was just called
\* is not in course yet: it comes last if it waits, and the others stay as
\* they are if it is done at once.
wrGoesOn(i, q) ==
    /\ IF q.pc = "done"
       THEN /\ wreqs' = IF i > Len(wreqs) THEN wreqs ELSE Without(wreqs, i)
            /\ wlast' = Response(q)
            /\ served' = IF q.path \in {"allowed", "error"}
                            /\ q.usage.used <= limit
                         THEN [served EXCEPT ![q.key] = Append(@, q.t)]
                         ELSE served
       ELSE /\ wreqs' = IF i > Len(wreqs)
                         THEN Append(wreqs, q)
                         ELSE [wreqs EXCEPT ![i] = q]
            /\ UNCHANGED <<wlast, served>>
    /\ UNCHANGED <<now, storeVars, alertVars, mwVars, lifeVars, strategy, limit,
                   wrWindowMs, webhook, onLimitReached, limitHandler, sops,
                   swindow, sret, redis, rcalls, rlast, rpending, config>>

\* Lines 54-65: the key, the limit and the call of storage.increment, which
\* the request then awaits.
wrCounts(i, r) ==
    LET record == FixedIncremented(storage, r.key, now, wrWindowMs)
    IN  /\ storage' = MapSet(storage, r.key, record)
        /\ wrGoesOn(i, [r EXCEPT !.pc = "increment", !.t = now,
                                 !.usage = Usage(record)])

\* rateLimitedHandler(req) is called: it runs to `await finalOptions.skip`
\* if options.skip is set, and to `await storage.increment` if not.  The
\* call of skip stands outside the try: if it throws, the request is
\* rejected.
wrArrives(key) ==
    /\ wcount < MaxWrReqs
    /\ Len(wreqs) < MaxWrWaiting
    /\ wcount' = wcount + 1
    /\ LET i == Len(wreqs) + 1
           r == Called(key)
       IN  IF skipOpt
           THEN /\ \E skipThrows \in BOOLEAN :
                      wrGoesOn(i, IF skipThrows
                                  THEN Rejected(r)
                                  ELSE [r EXCEPT !.pc = "skip"])
                /\ UNCHANGED storage
           ELSE wrCounts(i, r)

\* What finalOptions.skip(req) settles to.
SkipOutcomes == {"true", "false", "rejected"}

\* finalOptions.skip(req) has settled: `return handler(req)` if it gave
\* true, on to storage.increment if it gave false, and the request is
\* rejected if it rejected, or if the handler throws when it is called.
wrSkipSettled(i) ==
    LET r == wreqs[i]
    IN  /\ r.pc = "skip"
        /\ \E outcome \in SkipOutcomes :
              CASE outcome = "true" ->
                     /\ \E handlerThrows \in BOOLEAN :
                           wrGoesOn(i, IF handlerThrows
                                       THEN Rejected([r EXCEPT !.handled = 1])
                                       ELSE [r EXCEPT !.pc = "return",
                                                      !.path = "skipped",
                                                      !.handled = 1])
                     /\ UNCHANGED storage
                [] outcome = "false" -> wrCounts(i, r)
                [] OTHER -> wrGoesOn(i, Rejected(r)) /\ UNCHANGED storage
        /\ UNCHANGED wcount

\* storage.increment has settled: the headers are made, and the request
\* goes on to what it awaits next.
wrIncremented(i) ==
    LET r == wreqs[i]
    IN  /\ r.pc = "increment"
        /\ \E fetchThrows \in Thrown(r.usage.used > limit /\ webhook),
              olrThrows \in Thrown(r.usage.used > limit /\ ~webhook
                                    /\ onLimitReached),
              limitHandlerThrows \in Thrown(r.usage.used > limit /\ ~webhook
                                            /\ ~onLimitReached /\ limitHandler),
              handlerThrows \in Thrown(r.usage.used <= limit) :
           \E catchThrows \in Thrown(olrThrows \/ limitHandlerThrows
                                       \/ handlerThrows) :
              wrGoesOn(i, Incremented(r, fetchThrows, olrThrows,
                                      limitHandlerThrows, handlerThrows,
                                      catchThrows))
        /\ UNCHANGED <<storage, wcount>>

\* The fetch of notify has settled: notify returns if the response is ok,
\* awaits response.text() if it is not, and catches and logs a rejection.
wrFetchSettled(i) ==
    LET r == wreqs[i]
    IN  /\ r.pc = "fetch"
        /\ \E outcome \in FetchOutcomes :
              wrGoesOn(i, [r EXCEPT !.pc = IF outcome = "not ok"
                                           THEN "text" ELSE "notify"])
        /\ UNCHANGED <<storage, wcount>>

\* response.text() has settled: notify logs the failure and returns.
wrTextSettled(i) ==
    LET r == wreqs[i]
    IN  /\ r.pc = "text"
        /\ wrGoesOn(i, [r EXCEPT !.pc = "notify"])
        /\ UNCHANGED <<storage, wcount>>

\* notify has returned: the request goes on from line 84.
wrNotified(i) ==
    LET r == wreqs[i]
    IN  /\ r.pc = "notify"
        /\ \E olrThrows \in Thrown(onLimitReached),
              limitHandlerThrows \in Thrown(~onLimitReached /\ limitHandler) :
           \E catchThrows \in Thrown(olrThrows \/ limitHandlerThrows) :
              wrGoesOn(i, LimitReached(r, olrThrows, limitHandlerThrows,
                                       catchThrows))
        /\ UNCHANGED <<storage, wcount>>

\* onLimitReached has settled: the catch branch if it rejected, and on from
\* line 89 if not.
wrLimitReachedSettled(i) ==
    LET r == wreqs[i]
    IN  /\ r.pc = "onLimitReached"
        /\ \E rejects \in BOOLEAN :
           \E limitHandlerThrows \in Thrown(~rejects /\ limitHandler) :
           \E catchThrows \in Thrown(rejects \/ limitHandlerThrows) :
              wrGoesOn(i, IF rejects
                          THEN Caught(r, catchThrows)
                          ELSE LimitResponse(r, limitHandlerThrows,
                                             catchThrows))
        /\ UNCHANGED <<storage, wcount>>

\* handler(req) has settled: the catch branch, which calls it once more, if
\* it rejected, and its response with the headers if not.
wrHandlerSettled(i) ==
    LET r == wreqs[i]
    IN  /\ r.pc = "handler"
        /\ \E rejects \in BOOLEAN :
           \E catchThrows \in Thrown(rejects) :
              wrGoesOn(i, IF rejects
                          THEN Caught(r, catchThrows)
                          ELSE [r EXCEPT !.pc = "done", !.path = "allowed"])
        /\ UNCHANGED <<storage, wcount>>

\* The promise the request returned has settled: the request is answered
\* with what it resolved to, and rejected if it rejected.
wrReturned(i) ==
    LET r == wreqs[i]
    IN  /\ r.pc = "return"
        /\ \E rejects \in BOOLEAN :
              wrGoesOn(i, IF rejects
                          THEN Rejected(r)
                          ELSE [r EXCEPT !.pc = "done"])
        /\ UNCHANGED <<storage, wcount>>

\* withRateLimit(options), with the memory storage.
InitWithRateLimit ==
    /\ now = 0
    /\ InitStore
    /\ windowMs = 1 /\ maxRequests = 1
    /\ InitAlert
    /\ threshold = 2 /\ alertWindowMs = 1
    /\ consoleLog = TRUE /\ webhookUrl = FALSE /\ handler = FALSE
    /\ edge = FALSE /\ alerting = FALSE
    /\ skipOpt \in BOOLEAN
    /\ headersOpt = TRUE
    /\ statusCode = 0 /\ message = ""
    /\ reqs = << >>
    /\ strategy \in Strategies
    /\ limit \in LimitChoices
    /\ wrWindowMs \in WrWindowChoices
    /\ webhook \in BOOLEAN
    /\ onLimitReached \in BOOLEAN
    /\ limitHandler \in BOOLEAN
    /\ storage = [k \in {} |-> 0]
    /\ wreqs = << >>
    /\ wcount = 0
    /\ wlast = NoRequest
    /\ served = [k \in Keys |-> << >>]
    /\ InitNoStorageOps

\* The requests are followed at one reading of Date.now().
NextWithRateLimit ==
    \/ \E key \in Keys : wrArrives(key)
    \/ \E i \in DOMAIN wreqs : wrSkipSettled(i)
    \/ \E i \in DOMAIN wreqs : wrIncremented(i)
    \/ \E i \in DOMAIN wreqs : wrFetchSettled(i)
    \/ \E i \in DOMAIN wreqs : wrTextSettled(i)
    \/ \E i \in DOMAIN wreqs : wrNotified(i)
    \/ \E i \in DOMAIN wreqs : wrLimitReachedSettled(i)
    \/ \E i \in DOMAIN wreqs : wrHandlerSettled(i)
    \/ \E i \in DOMAIN wreqs : wrReturned(i)

SpecWithRateLimit == InitWithRateLimit /\ [][NextWithRateLimit]_vars

\* withRateLimit({strategy, limit, windowMs}) with no skip, webhook,
\* onLimitReached or handler option, and requests that come as time passes:
\* a request awaits storage.increment and handler(req) and nothing else.
InitWithRateLimitOverTime ==
    /\ InitWithRateLimit
    /\ ~skipOpt /\ ~webhook /\ ~onLimitReached /\ ~limitHandler

NextWithRateLimitOverTime ==
    \/ Tick
    \/ \E key \in Keys : wrArrives(key)
    \/ \E i \in DOMAIN wreqs : wrIncremented(i)
    \/ \E i \in DOMAIN wreqs : wrHandlerSettled(i)
    \/ \E i \in DOMAIN wreqs : wrReturned(i)

SpecWithRateLimitOverTime ==
    InitWithRateLimitOverTime /\ [][NextWithRateLimitOverTime]_vars

(***************************************************************************)
(* MemoryStorage (storage/memory.ts), called directly.  increment,          *)
(* decrement, reset and close contain no await: each is one step.           *)
(***************************************************************************)
\* The windows increment is called with.
StorageWindowChoices == {1, 2}

\* MemoryStorage.decrement: the storage it leaves.
FixedDecremented(store, key) ==
    IF key \in DOMAIN store /\ store[key].count > 0
    THEN [store EXCEPT ![key].count = @ - 1]
    ELSE store

\* The record of the key before a call, if it has one.
StoredRecord(store, key) ==
    IF key \in DOMAIN store THEN store[key] ELSE NoRecord

\* increment(key, w)
storageIncrement(key, w) ==
    /\ sops < MaxStorageOps
    /\ sops' = sops + 1
    /\ LET record == FixedIncremented(storage, key, now, w)
           opens == key \notin DOMAIN storage \/ now >= storage[key].resetTime
       IN  /\ storage' = MapSet(storage, key, record)
           /\ sret' = [op |-> "increment", key |-> key, t |-> now, w |-> w,
                       had |-> key \in DOMAIN storage,
                       pre |-> StoredRecord(storage, key),
                       usage |-> Usage(record)]
           /\ swindow' = [swindow EXCEPT ![key] =
                             IF opens
                             THEN [incs |-> 1, decs |-> 0, noops |-> 0]
                             ELSE [@ EXCEPT !.incs = @ + 1]]
    /\ UNCHANGED <<now, storeVars, alertVars, mwVars, lifeVars, strategy, limit,
                   wrWindowMs, webhook, onLimitReached, limitHandler, wreqs,
                   wcount, wlast, served, redis, rcalls, rlast, rpending,
                   config>>

\* decrement(key)
storageDecrement(key) ==
    /\ sops < MaxStorageOps
    /\ sops' = sops + 1
    /\ storage' = FixedDecremented(storage, key)
    /\ sret' = [NoStorageOp EXCEPT !.op = "decrement", !.key = key, !.t = now,
                                   !.had = key \in DOMAIN storage,
                                   !.pre = StoredRecord(storage, key)]
    /\ swindow' = [swindow EXCEPT ![key] =
                      IF storage' = storage
                      THEN [@ EXCEPT !.noops = @ + 1]
                      ELSE [@ EXCEPT !.decs = @ + 1]]
    /\ UNCHANGED <<now, storeVars, alertVars, mwVars, lifeVars, strategy, limit,
                   wrWindowMs, webhook, onLimitReached, limitHandler, wreqs,
                   wcount, wlast, served, redis, rcalls, rlast, rpending,
                   config>>

\* reset(key): the record of the key is deleted.
storageReset(key) ==
    /\ sops < MaxStorageOps
    /\ sops' = sops + 1
    /\ storage' = MapDelete(storage, key)
    /\ sret' = [NoStorageOp EXCEPT !.op = "reset", !.key = key, !.t = now,
                                   !.had = key \in DOMAIN storage,
                                   !.pre = StoredRecord(storage, key)]
    /\ UNCHANGED <<now, storeVars, alertVars, mwVars, lifeVars, strategy, limit,
                   wrWindowMs, webhook, onLimitReached, limitHandler, wreqs,
                   wcount, wlast, served, swindow, redis, rcalls, rlast,
                   rpending, config>>

\* close(): the Map is cleared; the storage can be used again afterwards.
storageClose ==
    /\ sops < MaxStorageOps
    /\ sops' = sops + 1
    /\ storage' = [k \in {} |-> 0]
    /\ sret' = [NoStorageOp EXCEPT !.op = "close", !.t = now]
    /\ UNCHANGED <<now, storeVars, alertVars, mwVars, lifeVars, strategy, limit,
                   wrWindowMs, webhook, onLimitReached, limitHandler, wreqs,
                   wcount, wlast, served, swindow, redis, rcalls, rlast,
                   rpending, config>>

\* new MemoryStorage()
InitMemoryStorage ==
    /\ now = 0
    /\ InitStore
    /\ windowMs = 1 /\ maxRequests = 1
    /\ InitAlert
    /\ threshold = 2 /\ alertWindowMs = 1
    /\ consoleLog = TRUE /\ webhookUrl = FALSE /\ handler = FALSE
    /\ InitNoMiddleware

NextMemoryStorage ==
    \/ Tick
    \/ \E key \in Keys, w \in StorageWindowChoices : storageIncrement(key, w)
    \/ \E key \in Keys : storageDecrement(key)
    \/ \E key \in Keys : storageReset(key)
    \/ storageClose

SpecMemoryStorage == InitMemoryStorage /\ [][NextMemoryStorage]_vars

(***************************************************************************)
(* RedisStorage (storage/redis.ts) over a Redis server.  increment reads    *)
(* Date.now(), sends MULTI, INCR key, PEXPIRE key windowMs, EXEC and awaits *)
(* the reply; the server runs the transaction as one step, at the instant   *)
(* it gets to it, and the call goes on when the reply is in.  The server    *)
(* is modelled from the meaning of the Redis commands.  Beside it a         *)
(* MemoryStore with the same windowMs and limit is given the same calls at  *)
(* the instants they are made, for comparison.                              *)
(***************************************************************************)
\* A key with no expiry set.
NoExpiry == -1

\* Whether the server still holds the key at instant t.  At the very
\* millisecond of its expiry it may or may not (gone).
RedisHolds(db, key, t, gone) ==
    /\ key \in DOMAIN db
    /\ \/ db[key].expireAt = NoExpiry
       \/ t < db[key].expireAt
       \/ t = db[key].expireAt /\ ~gone

\* The server's keys without the key, if it has expired.
RedisPurged(db, key, t, gone) ==
    IF key \in DOMAIN db /\ ~RedisHolds(db, key, t, gone)
    THEN MapDelete(db, key)
    ELSE db

\* INCR key: a missing key counts from 0 and gets no expiry.
RedisIncr(db, key) ==
    IF key \in DOMAIN db
    THEN [db EXCEPT ![key].value = @ + 1]
    ELSE MapSet(db, key, [value |-> 1, expireAt |-> NoExpiry])

\* PEXPIRE key w: the key, if it exists, expires w milliseconds from now.
RedisPexpire(db, key, t, w) ==
    IF key \in DOMAIN db
    THEN [db EXCEPT ![key].expireAt = t + w]
    ELSE db

\* The decimal digits of a natural number, and parseInt(chars, 10): leading
\* white space is skipped, a sign is read, and the result is the number the
\* digits that follow spell, NaN if there are none.
DigitChars == <<"0", "1", "2", "3", "4", "5", "6", "7", "8", "9">>
RECURSIVE Decimal(_)
Decimal(n) ==
    IF n < 10 THEN <<DigitChars[n + 1]>>
    ELSE Append(Decimal(n \div 10), DigitChars[(n % 10) + 1])
DigitValue(ch) == CHOOSE d \in 0..9 : DigitChars[d + 1] = ch
IsDigit(ch) == \E d \in 0..9 : DigitChars[d + 1] = ch
RECURSIVE LeadingDigits(_)
LeadingDigits(chars) ==
    IF chars = << >> \/ ~IsDigit(Head(chars)) THEN << >>
    ELSE <<Head(chars)>> \o LeadingDigits(Tail(chars))
RECURSIVE DigitsValue(_)
DigitsValue(digits) ==
    IF digits = << >> THEN 0
    ELSE 10 * DigitsValue(SubSeq(digits, 1, Len(digits) - 1))
         + DigitValue(digits[Len(digits)])
RECURSIVE TrimStart(_)
TrimStart(chars) ==
    IF chars # << >> /\ Head(chars) = " " THEN TrimStart(Tail(chars))
    ELSE chars
ParseInt(chars) ==
    LET trimmed == TrimStart(chars)
        signed == trimmed # << >> /\ Head(trimmed) \in {"-", "+"}
        digits == LeadingDigits(IF signed THEN Tail(trimmed) ELSE trimmed)
    IN  IF digits = << >>
        THEN [nan |-> TRUE, value |-> 0]
        ELSE [nan |-> FALSE,
              value |-> IF signed /\ Head(trimmed) = "-"
                        THEN 0 - DigitsValue(digits)
                        ELSE DigitsValue(digits)]

\* DEL key
RedisDel(db, key) == MapDelete(db, key)

\* What can go wrong in a transaction: the promise of exec() rejects, the
\* connection being lost, and nothing was run; EXEC replies null and nothing
\* was run; INCR replies an error; PEXPIRE replies an error; INCR's reply is
\* not a count.
Faults == {"none", "exec rejects", "exec null", "incr error", "pexpire error",
           "bad count"}
\* What can go wrong with DEL.
DelFaults == {"none", "exec rejects"}

\* No reply yet.
NoReply == [rejects |-> FALSE, isNull |-> FALSE, incrErr |-> FALSE,
            countResult |-> [type |-> "number", number |-> 0, chars |-> << >>],
            pexpireErr |-> FALSE]

\* The server after the transaction run at instant t, and the reply of EXEC:
\* null, or one [error, result] pair per command.  An integer reply arrives
\* as a number or, asString, as its decimal string.
RedisTransaction(db, key, t, w, fault, gone, asString) ==
    LET held == RedisPurged(db, key, t, gone)
        counted == IF fault = "incr error" THEN held ELSE RedisIncr(held, key)
        after == IF fault = "pexpire error" THEN counted
                 ELSE RedisPexpire(counted, key, t, w)
        n == IF key \in DOMAIN counted THEN counted[key].value ELSE 0
        countResult == IF fault = "bad count"
                       THEN [type |-> "string", number |-> 0,
                             chars |-> <<"O", "K">>]
                       ELSE IF asString
                            THEN [type |-> "string", number |-> 0,
                                  chars |-> Decimal(n)]
                            ELSE [type |-> "number", number |-> n,
                                  chars |-> << >>]
    IN  IF fault \in {"exec rejects", "exec null"}
        THEN [db |-> db,
              reply |-> [NoReply EXCEPT !.rejects = (fault = "exec rejects"),
                                        !.isNull = (fault = "exec null")]]
        ELSE [db |-> after,
              reply |-> [rejects |-> FALSE, isNull |-> FALSE,
                         incrErr |-> (fault = "incr error"),
                         countResult |-> countResult,
                         pexpireErr |-> (fault = "pexpire error")]]

\* What increment makes of the reply, t being its own reading of Date.now():
\* it rejects if exec() did, it throws on a null reply, on INCR's error and
\* on a count that is NaN; it reads nothing of PEXPIRE's pair.
RedisUsage(result, t, w) ==
    IF result.rejects \/ result.isNull \/ result.incrErr
    THEN [outcome |-> "rejected", used |-> 0, reset |-> 0]
    ELSE LET count == IF result.countResult.type = "number"
                      THEN [nan |-> FALSE, value |-> result.countResult.number]
                      ELSE ParseInt(result.countResult.chars)
         IN  IF count.nan
             THEN [outcome |-> "rejected", used |-> 0, reset |-> 0]
             ELSE [outcome |-> "usage", used |-> count.value,
                   reset |-> (t + w) \div 1000]

\* A call that awaits the server: what was called, its key, its reading of
\* Date.now(), what MemoryStore.increment returned beside it, and, once the
\* server has run its commands, what went wrong and the reply.
Sent(op, key, t, info) ==
    [op |-> op, key |-> key, t |-> t, info |-> info, stage |-> "sent",
     fault |-> "none", reply |-> NoReply]

\* Lines 26-36 up to the await: RedisStorage.increment(key, windowMs) reads
\* the clock and sends the transaction; and MemoryStore.increment(key) on
\* the store beside it.
redisIncrement(key) ==
    /\ rcalls < MaxRedisCalls
    /\ Len(rpending) < MaxRedisWaiting
    /\ rcalls' = rcalls + 1
    /\ LET record == IncrementedRecord(hits, key, now, windowMs)
       IN  /\ hits' = MapSet(hits, key, record)
           /\ rpending' = Append(rpending,
                                 Sent("increment", key, now,
                                      RateLimitInfo(record, maxRequests)))
    /\ UNCHANGED <<now, windowMs, maxRequests, calls, hist, tampered, last, prev,
                   alertVars, mwVars, lifeVars, strategy, limit, wrWindowMs,
                   webhook, onLimitReached, limitHandler, storage, wreqs,
                   wcount, wlast, served, sops, swindow, sret, redis, rlast,
                   config>>

\* Lines 64-66 up to the await: RedisStorage.reset(key) sends DEL; and
\* MemoryStore.reset(key) on the store beside it.
redisReset(key) ==
    /\ rcalls < MaxRedisCalls
    /\ Len(rpending) < MaxRedisWaiting
    /\ rcalls' = rcalls + 1
    /\ hits' = ResetHits(hits, key)
    /\ rpending' = Append(rpending, Sent("reset", key, now, NoInfo))
    /\ UNCHANGED <<now, windowMs, maxRequests, calls, hist, tampered, last, prev,
                   alertVars, mwVars, lifeVars, strategy, limit, wrWindowMs,
                   webhook, onLimitReached, limitHandler, storage, wreqs,
                   wcount, wlast, served, sops, swindow, sret, redis, rlast,
                   config>>

\* The server runs the commands of the earliest call it has not served yet,
\* at the instant it gets to them, and replies.
redisServes ==
    \E i \in DOMAIN rpending :
       /\ rpending[i].stage = "sent"
       /\ \A j \in 1..(i - 1) : rpending[j].stage # "sent"
       /\ LET c == rpending[i]
          IN  \E fault \in (IF c.op = "reset" THEN DelFaults ELSE Faults),
                 gone \in (IF c.key \in DOMAIN redis
                              /\ redis[c.key].expireAt = now
                           THEN BOOLEAN ELSE {FALSE}) :
              \E asString \in (IF c.op = "increment"
                                  /\ fault \in {"none", "pexpire error"}
                               THEN BOOLEAN ELSE {FALSE}) :
                 LET result ==
                         IF c.op = "reset"
                         THEN [db |-> IF fault = "none"
                                      THEN RedisDel(redis, c.key)
                                      ELSE redis,
                               reply |-> [NoReply EXCEPT
                                            !.rejects = (fault # "none")]]
                         ELSE RedisTransaction(redis, c.key, now, windowMs,
                                               fault, gone, asString)
                 IN  /\ redis' = result.db
                     /\ rpending' = [rpending EXCEPT ![i] =
                                       [c EXCEPT !.stage = "replied",
                                                 !.fault = fault,
                                                 !.reply = result.reply]]
    /\ UNCHANGED <<now, storeVars, alertVars, mwVars, lifeVars, strategy,
                   limit, wrWindowMs, webhook, onLimitReached, limitHandler,
                   storage, wreqs, wcount, wlast, served, sops, swindow, sret,
                   rcalls, rlast, config>>

\* Lines 38-61, and the end of reset: the call whose reply is in goes on,
\* and returns a usage or rejects.
redisReplied ==
    /\ rpending # << >>
    /\ Head(rpending).stage = "replied"
    /\ LET c == Head(rpending)
           usage == IF c.op = "increment"
                    THEN RedisUsage(c.reply, c.t, windowMs)
                    ELSE [outcome |-> IF c.reply.rejects THEN "rejected"
                                      ELSE "done",
                          used |-> 0, reset |-> 0]
       IN  rlast' = [op |-> c.op, key |-> c.key, t |-> c.t,
                     fault |-> c.fault, outcome |-> usage.outcome,
                     used |-> usage.used, reset |-> usage.reset,
                     info |-> c.info]
    /\ rpending' = Tail(rpending)
    /\ UNCHANGED <<now, storeVars, alertVars, mwVars, lifeVars, strategy,
                   limit, wrWindowMs, webhook, onLimitReached, limitHandler,
                   storage, wreqs, wcount, wlast, served, sops, swindow, sret,
                   redis, rcalls, config>>

\* new RedisStorage(client) over an empty server, and new MemoryStore.
InitRedis ==
    /\ now = 0
    /\ InitStore
    /\ InitAlert
    /\ threshold = 2 /\ alertWindowMs = 1
    /\ consoleLog = TRUE /\ webhookUrl = FALSE /\ handler = FALSE
    /\ InitNoMiddleware

NextRedis ==
    \/ Tick
    \/ \E key \in Keys : redisIncrement(key)
    \/ \E key \in Keys : redisReset(key)
    \/ redisServes
    \/ redisReplied

SpecRedis == InitRedis /\ [][NextRedis]_vars

(***************************************************************************)
(* parseMs and the windowMs option.  A string is a sequence of characters; *)
(* a JavaScript value is a record that tells a number from NaN, from       *)
(* undefined and from a thrown Error.                                      *)
(***************************************************************************)
\* A number is value / den, den a power of ten, in lowest such terms.
RECURSIVE JsFraction(_, _)
JsFraction(num, den) ==
    IF den > 1 /\ num % 10 = 0 THEN JsFraction(num \div 10, den \div 10)
    ELSE [type |-> "number", value |-> num, den |-> den]
JsNumber(n) == JsFraction(n, 1)
JsNaN == [type |-> "NaN", value |-> 0, den |-> 1]
JsUndefined == [type |-> "undefined", value |-> 0, den |-> 1]
JsThrown == [type |-> "throws", value |-> 0, den |-> 1]

\* The windowMs strings configured: those of at most MaxDurationLen of these
\* characters.  They spell the units ms, s, m, h and d; the weeks, the years
\* and the longer spellings that ms reads as well need other letters.
DurationAlphabet ==
    {"0", "1", "2", "s", "m", "h", "d", "H", "x", "-", " ", "."}
DurationStrings ==
    UNION {[1..n -> DurationAlphabet] : n \in 0..MaxDurationLen}
NumberChoices == 0..2
TimeInputs ==
    {JsNumber(n) : n \in NumberChoices}
    \cup {[type |-> "string", chars |-> c] : c \in DurationStrings}

\* String.prototype.toLowerCase
LowerCase(chars) ==
    [i \in DOMAIN chars |-> IF chars[i] = "H" THEN "h" ELSE chars[i]]

\* The milliseconds in a unit; 0 if it is no unit.
UnitMs(unit) ==
    IF unit = <<"d">> THEN 24 * 60 * 60 * 1000
    ELSE IF unit = <<"h">> THEN 60 * 60 * 1000
    ELSE IF unit = <<"m">> THEN 60 * 1000
    ELSE IF unit = <<"s">> THEN 1000
    ELSE IF unit = <<"m", "s">> THEN 1
    ELSE 0
UnitOf(chars) ==
    SubSeq(chars, Len(LeadingDigits(chars)) + 1, Len(chars))

\* The shorthand grammar, /^(\d+)([smhd])$/: an integer immediately followed
\* by one unit letter of s, m, h, d.
ShorthandDuration(chars) ==
    /\ LeadingDigits(chars) # << >>
    /\ UnitOf(chars) \in {<<"s">>, <<"m">>, <<"h">>, <<"d">>}

\* 10 to the n
RECURSIVE PowerOfTen(_)
PowerOfTen(n) == IF n = 0 THEN 1 ELSE 10 * PowerOfTen(n - 1)

\* What the ms package reads in a string:
\* /^(-?(?:\d+)?\.?\d+) *(...|ms|...|s|...|m|...|h|...|d|...)?$/i, a decimal
\* number with an optional sign and an optional fraction, any spaces, and an
\* optional unit in either case, which is ms if there is none.
MsMatch(chars) ==
    LET negative == chars # << >> /\ Head(chars) = "-"
        unsigned == IF negative THEN Tail(chars) ELSE chars
        whole == LeadingDigits(unsigned)
        afterWhole == SubSeq(unsigned, Len(whole) + 1, Len(unsigned))
        dotted == afterWhole # << >> /\ Head(afterWhole) = "."
        fraction == IF dotted THEN LeadingDigits(Tail(afterWhole)) ELSE << >>
        afterNumber == IF dotted
                       THEN SubSeq(afterWhole, Len(fraction) + 2,
                                   Len(afterWhole))
                       ELSE afterWhole
        unit == LowerCase(TrimStart(afterNumber))
        digits == DigitsValue(whole \o fraction)
    IN  [matches |-> /\ IF dotted THEN fraction # << >> ELSE whole # << >>
                     /\ unit = << >> \/ UnitMs(unit) # 0,
         num |-> IF negative THEN 0 - digits ELSE digits,
         den |-> PowerOfTen(Len(fraction)),
         unit |-> IF unit = << >> THEN <<"m", "s">> ELSE unit]

\* The strings that are a duration: those of the shorthand grammar and
\* whatever else the ms package reads.
ValidDuration(chars) == ShorthandDuration(chars) \/ MsMatch(chars).matches

\* ms(value) on a string.  The package is a dependency: release 2 gives
\* undefined for a string it cannot read and release 3 gives NaN, both throw
\* on the empty string; the tests replace it by a function that reads
\* digits followed by one of s, m, h, d and gives parseInt(value, 10) for
\* anything else.
MsBuilds == {"ms 2", "ms 3", "jest mock"}
Ms(chars, build) ==
    IF build = "jest mock"
    THEN IF ShorthandDuration(chars)
         THEN JsNumber(ParseInt(LeadingDigits(chars)).value
                       * UnitMs(UnitOf(chars)))
         ELSE IF ParseInt(chars).nan THEN JsNaN
              ELSE JsNumber(ParseInt(chars).value)
    ELSE IF chars = << >> THEN JsThrown
    ELSE IF MsMatch(chars).matches
         THEN JsFraction(MsMatch(chars).num * UnitMs(MsMatch(chars).unit),
                         MsMatch(chars).den)
    ELSE IF build = "ms 2" THEN JsUndefined
    ELSE JsNaN

\* parseMs(time) of utils/parse-ms.ts in its two versions: one returns what
\* ms gave, the other returns 0 unless typeof result === "number", which NaN
\* satisfies.
ParseMsVariants == {"as is", "or zero"}
ParseMsOrZero(time, build) ==
    IF time.type = "string"
    THEN LET result == Ms(time.chars, build)
         IN  IF result.type \in {"number", "NaN", "throws"} THEN result
             ELSE JsNumber(0)
    ELSE time
ParseMs(time, build) ==
    IF time.type = "string" THEN Ms(time.chars, build) ELSE time

\* rateLimiter(options) up to new MemoryStore(windowMs, maxRequests), and
\* new AlertManager(options): each parses a windowMs that is a string and
\* keeps the outcome as its window, config.windowMs; an Error thrown by
\* parseMs leaves nothing constructed.  A run configures one of them, once.
ConfigTargets == {"MemoryStore", "AlertManager"}
Configured(target, time, variant, build) ==
    LET parsed == IF variant = "or zero" THEN ParseMsOrZero(time, build)
                  ELSE ParseMs(time, build)
    IN  [target |-> target, time |-> time, variant |-> variant,
         build |-> build, windowMs |-> parsed,
         constructed |-> parsed.type # "throws"]
\* The MemoryStore rateLimiter constructs has autoCleanup true: its
\* constructor sets the cleanup timer.
configure(target, time) ==
    /\ config.target = "none"
    /\ \E variant \in ParseMsVariants, build \in MsBuilds :
          /\ config' = Configured(target, time, variant, build)
          /\ IF target = "MemoryStore" /\ config'.constructed
             THEN /\ autoCleanup' = TRUE
                  /\ cleanupInterval' = TRUE
             ELSE UNCHANGED <<autoCleanup, cleanupInterval>>
    /\ UNCHANGED <<now, storeVars, alertVars, mwVars, sweeps, shutdowns,
                   strategy, limit, wrWindowMs, webhook, onLimitReached,
                   limitHandler, storage, wreqs, wcount, wlast, served, sops,
                   swindow, sret, redis, rcalls, rlast, rpending>>

\* Nothing is constructed yet.
InitParseMs ==
    /\ Init
    /\ windowMs = 1 /\ maxRequests = 1
NextParseMs ==
    \E target \in ConfigTargets, time \in TimeInputs : configure(target, time)
SpecParseMs == InitParseMs /\ [][NextParseMs]_vars

(***************************************************************************)
(* Properties of the MemoryStore.                                           *)
(***************************************************************************)
\* The number of the timestamps in log that are less than w old at instant t.
InWindow(log, t, w) == Cardinality({i \in DOMAIN log : log[i] + w > t})

\* The key's record, and what increment would return at instant t, in store.
RecordOf(store, key) ==
    IF key \in DOMAIN store THEN <<"record", store[key]>> ELSE <<"absent">>
NextInfo(store, key, t) ==
    RateLimitInfo(IncrementedRecord(store, key, t, windowMs), maxRequests)

\* C1 (monotonic threshold): counting from an increment call that found no
\* record of its key, and with no decrement or reset since, the n-th call
\* made less than windowMs after the first returns totalHits = n, with
\* exceeded = FALSE for n = 1..maxRequests and TRUE for n = maxRequests + 1.
MonotonicThreshold ==
    \A k \in Keys : \A i, j \in DOMAIN hist[k] :
        (i <= j /\ hist[k][i].fresh /\ hist[k][j].t - hist[k][i].t < windowMs)
        => /\ hist[k][j].totalHits = j - i + 1
           /\ hist[k][j].exceeded = (j - i + 1 > maxRequests)

\* The (maxRequests + 1)-th call of one window was made and was flagged.
MonotonicThresholdWitness ==
    \E k \in Keys : \E i, j \in DOMAIN hist[k] :
        /\ hist[k][i].fresh
        /\ j = i + maxRequests
        /\ hist[k][j].t - hist[k][i].t < windowMs
        /\ hist[k][j].exceeded
        /\ ~hist[k][j - 1].exceeded

\* C2 (window expiry): an increment call at instant t counts, besides itself,
\* exactly the timestamps of its key recorded at instants t0 with t < t0 +
\* windowMs; a timestamp with t >= t0 + windowMs is not counted in totalHits.
WindowExpiry ==
    last.op = "increment"
    => last.info.totalHits = 1 + InWindow(last.pre, last.t, windowMs)

\* An increment found a timestamp exactly windowMs old, and a younger one.
WindowExpiryWitness ==
    /\ last.op = "increment"
    /\ \E i \in DOMAIN last.pre : last.pre[i] + windowMs = last.t
    /\ \E i \in DOMAIN last.pre : last.pre[i] + windowMs > last.t
    /\ last.info.totalHits = 2

\* C3 (maxRequests per window): in a run of a key without decrement or reset,
\* every interval (a, a + windowMs] of instants holds at most maxRequests
\* increment calls of the key that returned exceeded = FALSE.
MaxRequestsPerWindow ==
    \A k \in Keys : \A a \in (0 - windowMs)..MaxTime :
        Cardinality({i \in DOMAIN hist[k] :
                        /\ ~hist[k][i].exceeded
                        /\ a < hist[k][i].t
                        /\ hist[k][i].t <= a + windowMs}) <= maxRequests

\* A key was refused a call and, once the window had slid, allowed again:
\* more than maxRequests of its calls were allowed in all.
MaxRequestsPerWindowWitness ==
    \E k \in Keys :
        /\ \E i, j \in DOMAIN hist[k] :
              i < j /\ hist[k][i].exceeded /\ ~hist[k][j].exceeded
        /\ Cardinality({i \in DOMAIN hist[k] : ~hist[k][i].exceeded}) > maxRequests

\* C4 (key independence): increment, decrement or reset of key k1 leaves the
\* record of every other key k2 as it was, and with it what the next
\* increment of k2 returns at any later instant.
KeyIndependence ==
    [][\A k1 \in Keys :
          (increment(k1) \/ decrement(k1) \/ reset(k1))
          => \A k2 \in Keys \ {k1} :
                /\ RecordOf(hits', k2) = RecordOf(hits, k2)
                /\ \A t \in now..MaxTime :
                      NextInfo(hits', k2, t) = NextInfo(hits, k2, t)]_vars

\* An operation changed the record of its key while another key had hits.
KeyIndependenceWitness ==
    /\ last.op \in {"increment", "decrement", "reset"}
    /\ last.changed
    /\ \E k2 \in DOMAIN hits \ {last.key} : Len(hits[k2].timestamps) > 0

\* C7 (decrement correctness): decrement of a key leaves one timestamp fewer
\* in its log; and where h >= 1 of the key's hits are inside the window of
\* the next increment of the key, that increment reports totalHits = h, one
\* less than the h + 1 it reports when decrement is not called.
DecrementCorrectness ==
    /\ (last.op = "decrement" /\ Len(last.pre) >= 1)
       => Len(hits[last.key].timestamps) = Len(last.pre) - 1
    /\ (last.op = "increment" /\ prev.op = "decrement")
       => LET h == InWindow(prev.pre, last.t, windowMs)
              undone == (last.key :> [timestamps |-> prev.pre, resetTime |-> 0])
          IN  h >= 1 => /\ last.info.totalHits = h
                        /\ NextInfo(undone, last.key, last.t).totalHits = h + 1

\* An increment followed a decrement that found expired hits and fresh ones.
DecrementCorrectnessWitness ==
    /\ last.op = "increment"
    /\ prev.op = "decrement"
    /\ InWindow(prev.pre, last.t, windowMs) >= 1
    /\ Len(prev.pre) > InWindow(prev.pre, last.t, windowMs)

\* C8 (decrement of nothing): decrement of a key with no record, or with an
\* empty log, changes nothing and creates no record, and the next increment
\* of the key reports totalHits = 1.
DecrementNoOp ==
    /\ (last.op = "decrement" /\ last.pre = << >>)
       => /\ ~last.changed
          /\ (last.key \in DOMAIN hits) = last.had
    /\ (last.op = "increment" /\ prev.op = "decrement" /\ prev.pre = << >>)
       => last.info.totalHits = 1

\* An increment followed the decrement of a key that had no record.
DecrementNoOpWitness ==
    /\ last.op = "increment"
    /\ prev.op = "decrement"
    /\ ~prev.had
    /\ ~prev.changed

\* C9 (reset correctness): the increment that follows reset of its key
\* reports totalHits = 1 and exceeded = FALSE, whatever the key held before;
\* reset of a key with no record changes nothing.
ResetCorrectness ==
    /\ (last.op = "increment" /\ prev.op = "reset")
       => /\ last.info.totalHits = 1
          /\ ~last.info.exceeded
    /\ (last.op = "reset" /\ ~last.had) => ~last.changed

\* An increment followed, at the same instant, the reset of a key that was
\* over its limit.
ResetCorrectnessWitness ==
    /\ last.op = "increment"
    /\ prev.op = "reset"
    /\ prev.t = last.t
    /\ Len(prev.pre) > maxRequests

\* C10 (cleanup idempotence): a cleanup that follows a cleanup at the same
\* instant, with no other operation in between, changes neither the set of
\* keys nor any key's log.
CleanupIdempotence ==
    (last.op = "cleanup" /\ prev.op = "cleanup" /\ prev.t = last.t)
    => ~last.changed

\* A second cleanup followed one that had swept something and kept something.
CleanupIdempotenceWitness ==
    /\ last.op = "cleanup"
    /\ prev.op = "cleanup"
    /\ prev.t = last.t
    /\ prev.changed
    /\ DOMAIN hits # {}

\* The key's log in store, empty if it has no record, and how often the
\* instant v is in a log.
LogOf(store, key) ==
    IF key \in DOMAIN store THEN store[key].timestamps ELSE << >>
CountOf(log, v) == Cardinality({i \in DOMAIN log : log[i] = v})

\* C22 (sweep invariant): right after increment(k) at instant t the log of k
\* holds no timestamp <= t - windowMs, and right after cleanup() at instant t
\* no key's log does; and no operation puts into a log a timestamp that is
\* windowMs old or older, so a swept timestamp does not come back.
SweepInvariant ==
    /\ [](/\ last.op = "increment"
             => \A i \in DOMAIN LogOf(hits, last.key) :
                   LogOf(hits, last.key)[i] > last.t - windowMs
          /\ last.op = "cleanup"
             => \A k \in Keys : \A i \in DOMAIN LogOf(hits, k) :
                   LogOf(hits, k)[i] > last.t - windowMs)
    /\ [][\A k \in Keys : \A v \in 0..MaxTime :
            v <= now - windowMs
            => CountOf(LogOf(hits', k), v) <= CountOf(LogOf(hits, k), v)]_vars

\* An increment found an expired timestamp and a fresh one in the log of its
\* key, and left the fresh one and its own.
SweepInvariantWitness ==
    /\ last.op = "increment"
    /\ \E i \in DOMAIN last.pre : last.pre[i] <= last.t - windowMs
    /\ \E i \in DOMAIN last.pre : last.pre[i] > last.t - windowMs
    /\ Len(hits[last.key].timestamps) = 2

\* C23 (resetTime): the resetTime increment returns is the oldest timestamp
\* left in the log of its key, after the filter and the append, plus
\* windowMs; where no earlier timestamp was left, that is the instant of the
\* call plus windowMs.
ResetTimeFromOldest ==
    last.op = "increment"
    => /\ last.info.resetTime = hits[last.key].timestamps[1] + windowMs
       /\ InWindow(last.pre, last.t, windowMs) = 0
          => last.info.resetTime = last.t + windowMs

\* The number of the first j increment calls of key k that were made at
\* instants in (t - windowMs, t].
CallsInWindow(k, j, t) ==
    Cardinality({i \in 1..j : hist[k][i].t > t - windowMs /\ hist[k][i].t <= t})

\* C24 (totalHits counts rejected requests): for a key that decrement and
\* reset were never called on, the totalHits increment returns at instant t
\* is the number of increment calls of the key, this one included and those
\* that returned exceeded = TRUE included, made at instants in
\* (t - windowMs, t]; and exceeded is TRUE exactly when that number is
\* greater than maxRequests.
TotalHitsCountsRejected ==
    \A k \in Keys : \A j \in DOMAIN hist[k] :
        /\ hist[k][j].totalHits = CallsInWindow(k, j, hist[k][j].t)
        /\ hist[k][j].exceeded
           <=> CallsInWindow(k, j, hist[k][j].t) > maxRequests

\* A call was counted on top of a call that had been refused inside its
\* window: it returned a totalHits of maxRequests + 2 or more.
TotalHitsCountsRejectedWitness ==
    \E k \in Keys : \E i, j \in DOMAIN hist[k] :
        /\ i < j
        /\ hist[k][i].exceeded
        /\ hist[k][i].t > hist[k][j].t - windowMs
        /\ hist[k][j].totalHits >= maxRequests + 2

\* The hits map the first j increment calls of key k leave when nothing but
\* them touches the key: no cleanup runs in between.
RECURSIVE Replayed(_, _)
Replayed(k, j) ==
    IF j = 0
    THEN [x \in {} |-> 0]
    ELSE LET before == Replayed(k, j - 1)
         IN  MapSet(before, k,
                    IncrementedRecord(before, k, hist[k][j].t, windowMs))

\* C25 (cleanup against increment): cleanup() removes no timestamp that is
\* inside the window (> now - windowMs) at the instant it runs, whatever
\* increment calls came before it; and every increment of a key returns the
\* totalHits, resetTime and exceeded it returns when the same calls are made
\* at the same instants with no cleanup in between.
CleanupHarmless ==
    /\ [][cleanup
          => \A k \in Keys : \A v \in 0..MaxTime :
                v > now - windowMs
                => CountOf(LogOf(hits', k), v) = CountOf(LogOf(hits, k), v)]_vars
    /\ [](\A k \in Keys : \A j \in DOMAIN hist[k] :
             LET info == RateLimitInfo(Replayed(k, j)[k], maxRequests)
             IN  /\ hist[k][j].totalHits = info.totalHits
                 /\ hist[k][j].resetTime = info.resetTime
                 /\ hist[k][j].exceeded = info.exceeded)

\* A cleanup removed an expired timestamp from the log of a key and kept a
\* fresh one that had been counted together with it.
CleanupHarmlessWitness ==
    /\ last.op = "cleanup"
    /\ last.changed
    /\ \E k \in DOMAIN hits :
          /\ Len(hist[k]) >= 2
          /\ hist[k][1].t <= last.t - windowMs
          /\ hist[k][1].t > hist[k][Len(hist[k])].t - windowMs
          /\ Len(hits[k].timestamps) < Len(hist[k])

\* C18 (shutdown safety): shutdown() never throws, whether the store holds
\* no timer (autoCleanup false), holds one that has not run cleanup yet, or
\* was shut down before; it leaves the store without a timer, and a second
\* call clears nothing.
ShutdownSafe ==
    /\ \A j \in DOMAIN shutdowns :
          /\ ~shutdowns[j].threw
          /\ shutdowns[j].cleared <=> (j = 1 /\ autoCleanup)
    /\ shutdowns # << >> => ~cleanupInterval

\* A store with a timer that had not run cleanup was shut down twice.
ShutdownSafeWitness ==
    /\ autoCleanup
    /\ Len(shutdowns) = 2
    /\ shutdowns[1].had /\ shutdowns[1].sweeps = 0
    /\ ~shutdowns[2].had /\ ~shutdowns[2].cleared

\* C31 (shutdown stops the sweeps): once shutdown() has returned, the timer
\* runs cleanup() no more; shutdown changes no hit record, nor what the next
\* increment of any key returns at any later instant; and the increment calls
\* made after it return what the same calls return on a store that was never
\* swept or shut down.
ShutdownStopsSweeps ==
    /\ [][/\ sweep => shutdowns = << >>
          /\ shutdown
             => /\ hits' = hits
                /\ \A k \in Keys : \A t \in now..MaxTime :
                      NextInfo(hits', k, t) = NextInfo(hits, k, t)]_vars
    /\ [](shutdowns # << >>
          => /\ sweeps = shutdowns[1].sweeps
             /\ \A k \in Keys : \A j \in DOMAIN hist[k] :
                   LET info == RateLimitInfo(Replayed(k, j)[k], maxRequests)
                   IN  /\ hist[k][j].totalHits = info.totalHits
                       /\ hist[k][j].resetTime = info.resetTime
                       /\ hist[k][j].exceeded = info.exceeded)

\* A store whose timer had run cleanup was shut down; an increment made after
\* that found an expired timestamp that no sweep had removed.
ShutdownStopsSweepsWitness ==
    /\ autoCleanup
    /\ shutdowns # << >>
    /\ shutdowns[1].cleared
    /\ shutdowns[1].sweeps >= 1
    /\ calls > shutdowns[1].calls
    /\ last.op = "increment"
    /\ \E i \in DOMAIN last.pre : last.pre[i] <= last.t - windowMs

(***************************************************************************)
(* Properties of the AlertManager.                                          *)
(***************************************************************************)
\* The call numbers, among the key's recordBreach calls since construction or
\* clear, on which an alert was triggered.
AlertedCalls(k) ==
    {alerts[i].n : i \in {j \in DOMAIN alerts :
                            alerts[j].key = k /\ alerts[j].era = clears}}

\* C5 (edge-triggered alerting): while the recordBreach calls of a key have
\* been sequential (none began while another of the key was suspended) and
\* all lie less than alertWindowMs after the first, the calls that triggered
\* an alert are exactly those numbered threshold, 2 * threshold, ...
EdgeTriggered ==
    \A k \in Keys :
        (/\ ~overlapped[k]
         /\ btimes[k] # << >>
         /\ btimes[k][Len(btimes[k])] - btimes[k][1] < alertWindowMs)
        => AlertedCalls(k) =
              {n \in 1..Len(btimes[k]) : n % threshold = 0}

\* A key was alerted on twice, by 2 * threshold sequential breaches inside
\* one window, with a threshold of more than one.
EdgeTriggeredWitness ==
    \E k \in Keys :
        /\ ~overlapped[k]
        /\ threshold > 1
        /\ Len(btimes[k]) = 2 * threshold
        /\ btimes[k][Len(btimes[k])] - btimes[k][1] < alertWindowMs
        /\ Cardinality(AlertedCalls(k)) = 2
        /\ inflight = {}

\* C6 (alert window expiry): an alert is triggered by a recordBreach call at
\* instant t only if at least threshold breaches of the key, the current one
\* included and none of them emptied from the log after an earlier alert,
\* have instants > t - alertWindowMs; older breaches do not count towards it.
AlertWindowExpiry ==
    \A i \in DOMAIN alerts :
        LET a == alerts[i]
        IN  a.era = clears
            => Cardinality({j \in 1..a.n :
                              /\ j > a.consumed
                              /\ btimes[a.key][j] > a.timestamp - alertWindowMs})
               >= threshold

\* An alert was triggered by a call that found an expired breach in the log:
\* more breaches than threshold had been recorded since the last reset.
AlertWindowExpiryWitness ==
    \E i \in DOMAIN alerts :
        LET a == alerts[i]
        IN  /\ a.era = clears
            /\ threshold > 1
            /\ \E j \in 1..a.n :
                  /\ j > a.consumed
                  /\ btimes[a.key][j] <= a.timestamp - alertWindowMs

\* C13 (clear): after clear() no key has a breach record left from before:
\* a key has a record only if it breached since, its lifetime count is the
\* number of its breaches since clear, and an alert needs threshold breaches
\* made since clear and reports the count restarted from 0.
ClearResets ==
    clears > 0
    => /\ \A k \in Keys :
             /\ k \in DOMAIN breaches <=> btimes[k] # << >>
             /\ k \in DOMAIN breaches
                => /\ breaches[k].count = Len(btimes[k])
                   /\ Len(breaches[k].recentBreaches) <= Len(btimes[k])
       /\ \A i \in DOMAIN alerts :
             alerts[i].era = clears
             => /\ alerts[i].n >= threshold
                /\ alerts[i].breachCount = alerts[i].n

\* A key that was alerted on before clear() is alerted on again after it, by
\* its threshold-th breach since, with a count of threshold.
ClearResetsWitness ==
    /\ clears > 0
    /\ \E i, j \in DOMAIN alerts :
          /\ alerts[i].era < clears
          /\ alerts[j].era = clears
          /\ alerts[j].key = alerts[i].key
          /\ alerts[j].n = threshold
          /\ alerts[j].breachCount = threshold

\* C21 (breachCount in the alert window): the breachCount of an alert is the
\* number of the key's breaches, the one that triggers the alert included,
\* whose instants are > timestamp - alertWindowMs, timestamp being the
\* instant the alert is triggered at.
BreachCountInWindow ==
    \A i \in DOMAIN alerts :
        LET a == alerts[i]
        IN  a.era = clears
            => a.breachCount =
                  Cardinality({j \in 1..a.n :
                      btimes[a.key][j] > a.timestamp - alertWindowMs})

\* The alerts triggered for key k since construction or clear.
AlertsOf(k) ==
    {i \in DOMAIN alerts : alerts[i].key = k /\ alerts[i].era = clears}

\* C27 (no alert storm under overlapping calls): also when recordBreach calls
\* of a key run while earlier ones are suspended at the delivery of their
\* alert to the webhook or the custom handler, a key has at most one alert
\* per threshold breaches recorded for it.
NoAlertStorm ==
    (webhookUrl \/ handler)
    => \A k \in Keys :
          Cardinality(AlertsOf(k)) * threshold <= Len(btimes[k])

\* C28 (alerter invariant): right after a recordBreach call returns, be it at
\* once because it triggered no alert or after its alert was delivered, the
\* recentBreaches log of every key is shorter than threshold.
LogBelowThreshold ==
    [][(\/ \E c \in inflight : recordBreachResumed(c)
        \/ \E key \in Keys : recordBreach(key) /\ inflight' = inflight)
       => \A k \in DOMAIN breaches' :
             Len(breaches'[k].recentBreaches) < threshold]_vars

\* The lifetime count of key k in store: 0 for a key with no record.
LifetimeCount(store, k) == IF k \in DOMAIN store THEN store[k].count ELSE 0

\* C29 (lifetime breach counter): the count of a key goes up by exactly 1 on
\* every recordBreach of the key, becomes 0 on clear(), and is changed by
\* nothing else: not by an alert, not by the reset of the log after it, not by
\* breaches expiring, not by calls for other keys; and the breachCount of an
\* alert is the count of its key at the moment it is triggered.
LifetimeCounter ==
    [][\A k \in Keys :
          /\ clear => LifetimeCount(breaches', k) = 0
          /\ recordBreach(k)
             => /\ LifetimeCount(breaches', k) = LifetimeCount(breaches, k) + 1
                /\ Len(alerts') > Len(alerts)
                   => alerts'[Len(alerts')].breachCount =
                         LifetimeCount(breaches', k)
          /\ (~clear /\ ~recordBreach(k))
             => LifetimeCount(breaches', k) = LifetimeCount(breaches, k)]_vars

\* The second alert of a key, from calls that never overlapped, reported
\* twice the threshold, and the reset after it has been done.
LifetimeCounterWitness ==
    \E k \in Keys :
        /\ ~overlapped[k]
        /\ inflight = {}
        /\ Cardinality(AlertsOf(k)) = 2
        /\ \E i \in AlertsOf(k) : alerts[i].breachCount = 2 * threshold
        /\ LifetimeCount(breaches, k) = 2 * threshold

(***************************************************************************)
(* Properties of the AlertManager's delivery.                               *)
(***************************************************************************)
\* The recordBreach call that triggered the i-th alert has returned, or is
\* suspended at a point from which it returns.
Returns(i) ==
    /\ ~Has(alerts[i].log, "rejected")
    /\ \/ Has(alerts[i].log, "returned")
       \/ \E c \in inflight : c.alert = i /\ c.pc # "rejected"

\* C11 (fail-open on custom-handler error): when the custom handler of an
\* alert throws or rejects, the error is logged, recordBreach returns and does
\* not reject, and the console and the webhook, where enabled, have been
\* attempted for that alert.
HandlerFailOpen ==
    \A i \in DOMAIN alerts :
        Has(alerts[i].log, "handler failed")
        => /\ Has(alerts[i].log, "handler error")
           /\ Returns(i)
           /\ consoleLog => Has(alerts[i].log, "console")
           /\ webhookUrl => Has(alerts[i].log, "webhook")

\* With all three channels enabled, a recordBreach call returned after the
\* custom handler of its alert had failed.
HandlerFailOpenWitness ==
    /\ consoleLog /\ webhookUrl /\ handler
    /\ \E i \in DOMAIN alerts :
          /\ Has(alerts[i].log, "handler failed")
          /\ Has(alerts[i].log, "returned")

\* C12 (webhook failure): a webhook whose fetch rejects or answers not ok is
\* logged and does not make recordBreach reject; the webhook is POSTed at
\* most once per alert; and the custom handler, if set, is still called:
\* once, in the turn of triggerAlert that follows sendWebhook's return, and
\* so before recordBreach returns.
WebhookFailOpen ==
    \A i \in DOMAIN alerts :
        /\ Count(alerts[i].log, "webhook") <= 1
        /\ Has(alerts[i].log, "webhook failed")
           => /\ Has(alerts[i].log, "webhook error")
              /\ Returns(i)
              /\ Count(alerts[i].log, "webhook") = 1
              /\ handler
                 => Count(alerts[i].log, "handler") =
                       (IF \E c \in inflight : c.alert = i /\ c.pc = "sent"
                        THEN 0 ELSE 1)

\* A recordBreach call returned after the webhook of its alert had failed and
\* the custom handler had been called.
WebhookFailOpenWitness ==
    /\ handler
    /\ \E i \in DOMAIN alerts :
          /\ Has(alerts[i].log, "webhook failed")
          /\ Has(alerts[i].log, "handler")
          /\ Has(alerts[i].log, "returned")

\* The channels in the order triggerAlert goes through them, the channels
\* that are enabled, and the attempts in a log, in the order they were made.
Channels == <<"console", "webhook", "handler">>
Enabled(ch) ==
    \/ ch = "console" /\ consoleLog
    \/ ch = "webhook" /\ webhookUrl
    \/ ch = "handler" /\ handler
Attempts(log) == SelectSeq(log, LAMBDA x : x \in {"console", "webhook", "handler"})
\* The call that triggered the i-th alert is suspended at pc.
SuspendedAt(i, pc) == \E c \in inflight : c.alert = i /\ c.pc = pc

\* C30 (notification ordering): for every alert, the attempts made so far are
\* enabled channels, each attempted once, in the order console, webhook,
\* custom handler with no enabled channel passed over; the custom handler is
\* not called while the webhook's fetch is pending; and recordBreach is about
\* to return or has returned only when every enabled channel has been
\* attempted and none is pending.
NotificationOrder ==
    \A i \in DOMAIN alerts :
        LET log == alerts[i].log
            made == Attempts(log)
            due == SelectSeq(Channels, Enabled)
        IN  /\ Len(made) <= Len(due)
            /\ made = SubSeq(due, 1, Len(made))
            /\ Has(log, "handler")
               => ~SuspendedAt(i, "webhook") /\ ~SuspendedAt(i, "sent")
            /\ (SuspendedAt(i, "reset") \/ Has(log, "returned"))
               => /\ made = due
                  /\ ~SuspendedAt(i, "webhook")
                  /\ ~SuspendedAt(i, "sent")
                  /\ ~SuspendedAt(i, "handler")

\* With all three channels enabled, a recordBreach call has returned after
\* the webhook of its alert failed and the custom handler was called; and
\* another alert is waiting for its webhook, its handler not yet called.
NotificationOrderWitness ==
    /\ consoleLog /\ webhookUrl /\ handler
    /\ \E i \in DOMAIN alerts :
          /\ Has(alerts[i].log, "returned")
          /\ Has(alerts[i].log, "webhook failed")
          /\ Attempts(alerts[i].log) = Channels
    /\ \E i \in DOMAIN alerts :
          /\ SuspendedAt(i, "webhook")
          /\ Attempts(alerts[i].log) = <<"console", "webhook">>

(***************************************************************************)
(* Properties of rateLimiter and edgeRateLimiter.                           *)
(***************************************************************************)
\* The request was counted: store.increment was called and did not reject.
Counted(r) == r.incKeys # << >> /\ ~r.failed

\* The requests up to the i-th, of the key of the i-th, that were counted.
CountedUpTo(i) ==
    {j \in 1..i : Counted(reqs[j]) /\ reqs[j].key = reqs[i].key}

\* C26 (no lost update): increment runs from its lookup to its return with
\* no other operation in between, so calls that overlap (each made while the
\* callers of the earlier ones are still suspended at their await) lose no
\* update: on a fresh key and inside one window the m-th counted call
\* returns totalHits = m, and the log of the key holds one timestamp for each.
NoLostUpdate ==
    /\ \A i \in DOMAIN reqs :
          Counted(reqs[i])
          => reqs[i].info.totalHits = Cardinality(CountedUpTo(i))
    /\ \A k \in Keys :
          Len(LogOf(hits, k)) =
             Cardinality({j \in DOMAIN reqs : Counted(reqs[j]) /\ reqs[j].key = k})

\* Three increment calls of one key overlap: the callers of all three are
\* suspended at their await, and the calls return 1, 2 and 3.
NoLostUpdateWitness ==
    \E k \in Keys :
        /\ Cardinality({j \in DOMAIN reqs :
                           /\ reqs[j].key = k
                           /\ reqs[j].pc = "increment"
                           /\ Counted(reqs[j])}) = 3
        /\ {reqs[j].info.totalHits : j \in DOMAIN reqs} = {1, 2, 3}

\* C14 (fail-open on store failure): a request whose store.increment rejected
\* is logged and goes on, to the wrapped handler in rateLimiter and as
\* NextResponse.next() in edgeRateLimiter; it gets no rate-limit response and
\* no breach is recorded for it.
StoreFailOpen ==
    \A i \in DOMAIN reqs :
        reqs[i].failed
        => /\ reqs[i].breachKeys = << >>
           /\ reqs[i].response.kind # "limited"
           /\ reqs[i].pc = "done"
              => /\ reqs[i].logged
                 /\ IF edge
                    THEN reqs[i].response = NextResponse /\ reqs[i].handled = 0
                    ELSE reqs[i].response = NoResponse /\ reqs[i].handled = 1

\* A request whose store.increment rejected has gone on, after a request of
\* the same key that was counted.
StoreFailOpenWitness ==
    \E i, j \in DOMAIN reqs :
        /\ i < j
        /\ reqs[i].key = reqs[j].key
        /\ Counted(reqs[i])
        /\ reqs[j].failed
        /\ reqs[j].pc = "done"
        /\ reqs[j].logged

\* C15 (blocking): a request for which store.increment reported exceeded is
\* never passed to the wrapped handler and is answered with
\* options.statusCode, 429 if none is set, and the configured message, the
\* default one if none is set; a request reported not exceeded is passed to
\* the handler and gets no rate-limit response.
Blocking ==
    \A i \in DOMAIN reqs :
        Counted(reqs[i])
        => IF reqs[i].info.exceeded
           THEN /\ reqs[i].handled = 0
                /\ reqs[i].response.kind # "next"
                /\ reqs[i].pc = "done"
                   => /\ reqs[i].response.kind = "limited"
                      /\ reqs[i].response.status =
                            (IF statusCode = 0 THEN 429 ELSE statusCode)
                      /\ reqs[i].response.message =
                            (IF message = "" THEN DefaultMessage ELSE message)
           ELSE /\ reqs[i].response.kind # "limited"
                /\ reqs[i].pc = "done"
                   => IF edge
                      THEN reqs[i].response = NextResponse
                      ELSE reqs[i].handled >= 1

\* rateLimiter, with a statusCode and a message set, passed one request to
\* the handler and answered a later one of the same key with that status and
\* message.
BlockingWitness ==
    /\ ~edge
    /\ statusCode # 0 /\ message # ""
    /\ \E i, j \in DOMAIN reqs :
          /\ i < j
          /\ reqs[i].key = reqs[j].key
          /\ Counted(reqs[i]) /\ ~reqs[i].info.exceeded
          /\ reqs[i].pc = "done" /\ reqs[i].handled = 1
          /\ Counted(reqs[j]) /\ reqs[j].info.exceeded
          /\ reqs[j].pc = "done"
          /\ reqs[j].response.status = statusCode
          /\ reqs[j].response.message = message

\* C16 (breach recording): with alerting set, recordBreach is called once,
\* with the key store.increment was called with, for a request reported
\* exceeded, and not at all for a request that was allowed, skipped or whose
\* store.increment rejected.
BreachRecording ==
    alerting
    => /\ \A i \in DOMAIN reqs :
             LET r == reqs[i]
             IN  /\ Len(r.breachKeys) <= 1
                 /\ r.breachKeys # << >>
                    => /\ Counted(r)
                       /\ r.info.exceeded
                       /\ r.breachKeys = r.incKeys
                 /\ (r.pc = "done" /\ Counted(r) /\ r.info.exceeded)
                    => r.breachKeys = <<r.key>>
       /\ bcalls = Cardinality({i \in DOMAIN reqs : reqs[i].breachKeys # << >>})

\* With alerting set, a breach was recorded for a request over the limit and
\* none for an allowed request of the same key.
BreachRecordingWitness ==
    /\ alerting
    /\ \E i, j \in DOMAIN reqs :
          /\ reqs[i].key = reqs[j].key
          /\ reqs[i].pc = "done" /\ Counted(reqs[i])
          /\ ~reqs[i].info.exceeded /\ reqs[i].breachKeys = << >>
          /\ reqs[j].pc = "done" /\ reqs[j].info.exceeded
          /\ reqs[j].breachKeys = <<reqs[j].key>>

\* C17 (skip): a request that options.skip returns true for leaves the
\* store's counters and the breach records as they are, calls neither
\* store.increment nor recordBreach, and goes on at once: to the wrapped
\* handler in rateLimiter, as NextResponse.next() in edgeRateLimiter.
SkipBypasses ==
    [][\A key \in Keys :
          requestArrives(key, TRUE)
          => /\ hits' = hits
             /\ breaches' = breaches
             /\ bcalls' = bcalls
             /\ LET r == reqs'[Len(reqs')]
                IN  /\ r.pc = "done"
                    /\ r.incKeys = << >>
                    /\ r.breachKeys = << >>
                    /\ IF edge
                       THEN r.response = NextResponse /\ r.handled = 0
                       ELSE r.response = NoResponse /\ r.handled = 1]_vars

\* A request was skipped while its key had hits counted.
SkipBypassesWitness ==
    \E i \in DOMAIN reqs :
        /\ reqs[i].skips
        /\ reqs[i].pc = "done"
        /\ reqs[i].key \in DOMAIN hits
        /\ \E j \in DOMAIN reqs : j < i /\ reqs[j].key = reqs[i].key

(***************************************************************************)
(* Properties claimed of withRateLimit.                                     *)
(***************************************************************************)
\* C19 (response headers): every response withRateLimit returns for a request
\* it did not skip, be it the allowed response, the default 429, the custom
\* limit handler's 429 or the response of the catch branch, carries the
\* X-RateLimit headers, and Retry-After is only on a 429.
HeadersOnAllResponses ==
    wlast.path \in {"allowed", "limited", "custom", "error"}
    => /\ wlast.headers
       /\ wlast.retryAfter => wlast.status = 429

\* C20 (sliding window): with strategy SLIDING_WINDOW, every interval
\* (a, a + windowMs] holds at most limit requests of one key that were let
\* through.
SlidingWindowEnforced ==
    strategy = "sliding_window"
    => \A k \in Keys : \A a \in (0 - wrWindowMs)..MaxTime :
          Cardinality({i \in DOMAIN served[k] :
                          a < served[k][i] /\ served[k][i] <= a + wrWindowMs})
          <= limit

(***************************************************************************)
(* Properties of the MemoryStorage.                                         *)
(***************************************************************************)
\* The last call was an increment that started a new window, or one that
\* counted in the window it found.
StartsWindow == ~sret.had \/ sret.t >= sret.pre.resetTime
FixedWindowSteps ==
    sret.op = "increment"
    => IF StartsWindow
       THEN /\ sret.usage.used = 1
            /\ storage[sret.key].resetTime = sret.t + sret.w
            /\ sret.usage.reset = (sret.t + sret.w) \div 1000
       ELSE /\ sret.usage.used = sret.pre.count + 1
            /\ storage[sret.key].resetTime = sret.pre.resetTime
            /\ sret.usage.reset = sret.pre.resetTime \div 1000

\* C32 as stated (fixed-window store): increment starts a new window, with
\* used = 1 and resetTime = now + windowMs, exactly when the key has no record
\* or now >= the stored resetTime; any other call returns the previous count
\* plus 1 and leaves resetTime; and used is the number of increment calls
\* minus the number of decrement calls of the key since its window began.
FixedWindowAllDecrements ==
    /\ FixedWindowSteps
    /\ sret.op = "increment"
       => sret.usage.used = swindow[sret.key].incs - swindow[sret.key].decs
                            - swindow[sret.key].noops

\* C32 as amended: the same, with used the number of increment calls minus
\* the number of decrement calls that found a count above 0; a decrement that
\* finds the count at 0 changes nothing and is not subtracted.
FixedWindow ==
    /\ FixedWindowSteps
    /\ sret.op = "increment"
       => sret.usage.used = swindow[sret.key].incs - swindow[sret.key].decs

\* An increment counted in a window in which the key had been decremented,
\* once with effect and once at a count of 0.
FixedWindowWitness ==
    /\ sret.op = "increment"
    /\ ~StartsWindow
    /\ swindow[sret.key].decs >= 1
    /\ swindow[sret.key].noops >= 1
    /\ sret.usage.used = 1

(***************************************************************************)
(* Properties of the RedisStorage.                                          *)
(***************************************************************************)
\* C33 (Redis is at least as strict as the sliding window): for the calls
\* made for a key with one windowMs and limit, a call of
\* RedisStorage.increment that MemoryStore.increment flags exceeded, given
\* the same calls, returns a usage with used > limit.
RedisAtLeastSliding ==
    (rlast.op = "increment" /\ rlast.outcome = "usage" /\ rlast.info.exceeded)
    => rlast.used > maxRequests

\* C34 (no silent pass): a call of RedisStorage.increment whose transaction
\* failed, be it EXEC replying null, INCR or PEXPIRE replying an error, or a
\* count that is not a number, rejects and returns no usage.
RedisFailureRejects ==
    (rlast.outcome # "none" /\ rlast.fault # "none")
    => rlast.outcome = "rejected"

\* C35: parseMs on a string that is not a valid duration gives a defined
\* failure (it throws) or a default that is a positive number, never 0 and
\* never a value that is not a number, so that nothing is constructed with a
\* window of 0 or of no number out of an unreadable windowMs string.
ParseMsDefined ==
    (/\ config.target # "none"
     /\ config.time.type = "string"
     /\ ~ValidDuration(config.time.chars))
    => \/ config.windowMs.type = "throws" /\ ~config.constructed
       \/ config.windowMs.type = "number" /\ config.windowMs.value > 0

\* C36 as stated: with windowMs = 0 and maxRequests >= 1, every increment
\* returns exceeded = true.
ZeroWindowAlwaysExceeds ==
    (windowMs = 0 /\ last.op = "increment") => last.info.exceeded

\* C36, amended: with windowMs = 0 and maxRequests >= 1, every increment
\* counts the request it records and nothing else: totalHits = 1 and
\* exceeded = false, whatever was recorded before, the same millisecond
\* included.
ZeroWindowNeverExceeds ==
    (windowMs = 0 /\ last.op = "increment")
    => /\ last.info.totalHits = 1
       /\ ~last.info.exceeded
       /\ last.info.resetTime = last.t

\* The third increment of a key within one millisecond, maxRequests = 1.
ZeroWindowNeverExceedsWitness ==
    /\ windowMs = 0 /\ maxRequests = 1
    /\ last.op = "increment"
    /\ ~tampered[last.key]
    /\ Len(hist[last.key]) = 3
    /\ \A i \in 1..3 : hist[last.key][i].t = last.t

\* C37: the wrapped route handler is called at most once for a request, on
\* every path through withRateLimit, the catch branch included.
HandlerAtMostOnce ==
    /\ wlast.handled <= 1
    /\ \A i \in DOMAIN wreqs : wreqs[i].handled <= 1

\* C38: in withRateLimit a request for which storage.increment returned
\* used > limit is never passed to the wrapped route handler, whatever the
\* webhook, onLimitReached and the custom limit handler do.
OverLimitNeverHandled ==
    \A i \in DOMAIN wreqs :
       wreqs[i].usage.used > limit => wreqs[i].handled = 0

\* Whether the webhook or the custom handler of an alert failed.
DeliveryFailed(log) ==
    Has(log, "webhook failed") \/ Has(log, "handler failed")

\* C39: when the webhook or the custom handler of an alert fails, the
\* recordBreach call still empties the log of the record it holds and
\* returns; and an alert of the key that follows that reset comes threshold
\* breaches after the failed one, or later.
FailedDeliveryResets ==
    /\ [][\A c \in inflight :
            (/\ recordBreachResumed(c)
             /\ DeliveryFailed(alerts[c.alert].log)
             /\ c.key \in DOMAIN breaches
             /\ breaches[c.key].id = c.id)
            => /\ breaches'[c.key].recentBreaches = << >>
               /\ alerts'[c.alert].log[Len(alerts'[c.alert].log)]
                    = "returned"]_vars
    /\ [](\A i, j \in DOMAIN alerts :
            (/\ i < j
             /\ alerts[i].key = alerts[j].key
             /\ alerts[i].era = alerts[j].era
             /\ DeliveryFailed(alerts[i].log)
             /\ alerts[j].consumed >= alerts[i].n)
            => alerts[j].n >= alerts[i].n + threshold)

\* An alert whose webhook and custom handler both failed, its recordBreach
\* call returned, and the next alert of the key threshold breaches later,
\* with no call of the key begun while another was suspended.
FailedDeliveryResetsWitness ==
    \E i, j \in DOMAIN alerts :
        /\ i < j
        /\ alerts[i].key = alerts[j].key
        /\ alerts[i].era = alerts[j].era
        /\ ~overlapped[alerts[i].key]
        /\ Has(alerts[i].log, "webhook failed")
        /\ Has(alerts[i].log, "handler failed")
        /\ Has(alerts[i].log, "returned")
        /\ alerts[j].consumed >= alerts[i].n
        /\ alerts[j].n = alerts[i].n + threshold

\* The place of request i among the requests of its key.
PlaceOf(i) ==
    Cardinality({j \in 1..i : reqs[j].key = reqs[i].key})
\* The alerts of key k triggered up to alert a.
AlertsUpTo(k, a) ==
    Cardinality({b \in 1..a : alerts[b].key = k})

\* C40 (end to end): with a MemoryStore of maxRequests = N, whose increment
\* does not fail, and alerting with threshold T, for requests of a key that
\* come one after the other within both windows: the first N reach the
\* handler (or NextResponse.next() at the edge) and trigger no alert; every
\* later one is answered with the rate-limit response and never handled; and
\* the request in place p > N triggers an alert exactly when p - N is a
\* multiple of T, the alert being the ((p - N) / T)-th of the key.
EndToEnd ==
    (\A i \in DOMAIN reqs : ~reqs[i].failed)
    => \A i \in DOMAIN reqs :
          reqs[i].pc = "done"
          => LET p == PlaceOf(i)
                 a == reqs[i].alert
             IN  IF p <= maxRequests
                 THEN /\ a = 0
                      /\ reqs[i].response.kind # "limited"
                      /\ IF edge THEN reqs[i].response = NextResponse
                         ELSE reqs[i].handled >= 1
                 ELSE /\ reqs[i].handled = 0
                      /\ reqs[i].response.kind = "limited"
                      /\ (a # 0) = ((p - maxRequests) % threshold = 0)
                      /\ a # 0
                         => /\ alerts[a].key = reqs[i].key
                            /\ AlertsUpTo(reqs[i].key, a) * threshold
                                 = p - maxRequests

\* Five requests of one key, maxRequests = 1 and threshold = 2: the third
\* triggered the first alert of the key and the fifth its second.
EndToEndWitness ==
    /\ maxRequests = 1 /\ threshold = 2
    /\ Len(reqs) = 5
    /\ \A i \in 1..5 :
          /\ reqs[i].key = reqs[1].key
          /\ ~reqs[i].failed
          /\ reqs[i].pc = "done"
    /\ reqs[3].alert = 1
    /\ reqs[5].alert = 2

TypeOK ==
    /\ now \in 0..MaxTime
    /\ DOMAIN hits \subseteq Keys
====
